---------------------------- MODULE Spec2Model ----------------------------
(***************************************************************************)
(* Model of dma_sdk (src/dma_sdk/__init__.py, src/dma_sdk/utils.py).       *)
(*                                                                         *)
(* Part 1: _wait_for_translation_results, the loop that polls the status   *)
(*         of a translation job (specification Spec).                      *)
(* Part 2: _translation_results_html and _render_translated_model_as_html, *)
(*         the report renderer (specification SpecRender).                 *)
(*                                                                         *)
(* Text is modelled as a sequence of one-character strings, so that        *)
(* html.escape, re.findall(r'\d+'), str.splitlines and string comparison   *)
(* are computed character by character as Python computes them.            *)
(***************************************************************************)
EXTENDS Integers, Sequences, FiniteSets, TLC

VARIABLES
    \* ---- _wait_for_translation_results: parameters
    max_errors,             \* parameter max_errors (line 564)
    poll_interval,          \* parameter poll_interval (line 563), in clock ticks
    \* ---- _wait_for_translation_results: locals
    pc,                     \* "polling" | "returned" | "raised"
    last_check_time,        \* line 595
    connection_error_count, \* line 597
    error_log,              \* line 598
    warnings_handle,        \* line 601: the display handle and what it shows
    result,                 \* the returned dict (line 636), NoResult before
    exc,                    \* the exception that left the call, NoExc before
    \* ---- environment of the loop
    clock,                  \* what time.time() gives at the next pass through
                            \* line 604, in ticks of spinner_speed
    history,                \* outcome of every status request issued so far
    check_times,            \* current_time (line 604) of the iteration of
                            \* every status request issued so far
    job_status,             \* the status of the remote job where the service
                            \* answers from it, None where it answers freely
    \* ---- _translation_results_html
    rpc,                    \* "idle" | "called" | "done"
    translation_results,    \* the argument of _translation_results_html
    model_arg,              \* the model _render_translated_model_as_html is
                            \* called with directly, NoModel otherwise
    report,                 \* what the call produced: a document or an exception
    \* ---- the module globals of lines 47-53
    _notebook_host,
    _current_api_key,
    _identity,
    _last_project_id,
    _last_translation_id,
    _last_source_type,
    _last_target_type,
    \* ---- a call of an entry point of the module
    frame,                  \* the call in progress or just ended: its
                            \* arguments, its position and its locals
    sent,                   \* the requests the call has issued, other than
                            \* the status requests of the poll loop
    ncalls,                 \* calls begun in this session
    jobs                    \* the jobs the service has started in this
                            \* session, oldest first

pollVars ==
    <<max_errors, poll_interval, pc, last_check_time, connection_error_count,
      error_log, warnings_handle, result, exc, clock, history, check_times,
      job_status>>

renderVars == <<rpc, translation_results, model_arg, report>>

globalVars ==
    <<_notebook_host, _current_api_key, _identity, _last_project_id,
      _last_translation_id, _last_source_type, _last_target_type>>

sessionVars == <<globalVars, frame, sent, ncalls, jobs>>

vars == <<pollVars, renderVars, sessionVars>>

(***************************************************************************)
(* Bounds of the model.                                                    *)
(***************************************************************************)
MaxRequests == 5        \* status requests issued in one session
MaxErrorsBound == 3     \* max_errors is drawn from 1..MaxErrorsBound
EpochStart == 5         \* time.time() when the call starts, in ticks
MaxModels == 3          \* models of one job result given to the renderer
MaxLines == 3           \* lines of a SQL text given to the diff
MaxCalls == 3           \* calls of entry points in one session
MaxWaitRequests == 2    \* status requests of one call of a session
CallQueries == 2        \* queries given to one call of a session
MaxQueries == 11        \* queries given to the call whose upload is followed
MaxPermuted == 3        \* jobs of up to MaxPermuted models are returned in
                        \* every order

(***************************************************************************)
(* Program constants.                                                      *)
(***************************************************************************)
spinner_speed == 1      \* one tick: the 0.1 s of line 593

\* the poll interval the entry points pass, the 5 of lines 254 and 345; the
\* model keeps the number, so that a call polls every 5 ticks
CallerPollInterval == 5

None == "None"

\* the values poll_interval is drawn from, in ticks
PollIntervals == {1, 2}

(***************************************************************************)
(* Exceptions.  An exception is a record: its class, its message str(e)    *)
(* (the number of the request that produced it, 0 when not from a request) *)
(* and, for HTTPError, the status code of its response.                    *)
(*                                                                         *)
(* Mro gives the classes an exception is an instance of: the class         *)
(* hierarchy of requests.exceptions, where ConnectionError, Timeout,       *)
(* HTTPError and JSONDecodeError (raised by response.json() on a body that *)
(* is not JSON) all derive from RequestException.                          *)
(***************************************************************************)
Mro(type) ==
    CASE type = "ConnectionError" -> {"ConnectionError", "RequestException", "Exception"}
      [] type = "Timeout"         -> {"Timeout", "RequestException", "Exception"}
      [] type = "HTTPError"       -> {"HTTPError", "RequestException", "Exception"}
      [] type = "JSONDecodeError" -> {"JSONDecodeError", "InvalidJSONError",
                                      "RequestException", "ValueError", "Exception"}
      [] type = "KeyError"        -> {"KeyError", "LookupError", "Exception"}
      [] type = "TypeError"       -> {"TypeError", "Exception"}
      [] type = "NameError"       -> {"NameError", "Exception"}
      [] type = "AttributeError"  -> {"AttributeError", "Exception"}
      [] OTHER                    -> {"Exception"}

IsInstance(e, cls) == cls \in Mro(e.type)

NoExc == [type |-> None, msg |-> 0, status_code |-> None]

NoResult == [status |-> None, response |-> 0, polling_errors |-> << >>]

NoHandle == [exists |-> FALSE, color |-> None, items |-> << >>, created |-> 0]

(***************************************************************************)
(* What one status request (lines 609-611) can do, as seen by the loop.    *)
(*   get_data raises ConnectionError, Timeout or HTTPError (utils.py);     *)
(*   response.json() raises JSONDecodeError on a body that is not JSON;    *)
(*   result["status"] raises KeyError when the payload has no status;      *)
(*   otherwise the request succeeds and reports a status.                  *)
(* n is the number of the request.                                         *)
(***************************************************************************)
Statuses == {"done", "failed", "running", "cancelled"}

RequestExcTypes == {"ConnectionError", "Timeout", "HTTPError", "JSONDecodeError"}

OtherExcTypes == {"KeyError"}

Raised(type, n) ==
    [type |-> type, msg |-> n,
     status_code |-> IF type = "HTTPError" THEN "503" ELSE None]

Outcomes(n) ==
    {[ok |-> TRUE, status |-> s, exc |-> NoExc] : s \in Statuses}
    \cup {[ok |-> FALSE, status |-> None, exc |-> Raised(t, n)] :
             t \in RequestExcTypes \cup OtherExcTypes}

(***************************************************************************)
(* The pieces of the loop body.                                            *)
(***************************************************************************)
CheckDueEarly(current_time, last, interval) == current_time - last >= interval - 1

\* line 607: is a status check due?
CheckDue(current_time, last, interval) == current_time - last >= interval

\* lines 637-642: the except clause
Caught(e) ==
    \/ IsInstance(e, "ConnectionError")
    \/ IsInstance(e, "Timeout")
    \/ IsInstance(e, "HTTPError")
    \/ IsInstance(e, "RequestException")

IsTerminalDoneOnly(status) == status = "done"

\* line 616: status in [TranslationJobStatus.DONE, TranslationJobStatus.FAILED]
IsTerminalAlsoCancelled(status) == status \in {"done", "failed", "cancelled"}

IsTerminal(status) == status \in {"done", "failed"}

\* line 614
CountAfterSuccessKept(count) == count

CountAfterSuccess(count) == 0

\* lines 646-657: error_code
ErrorCode(e) ==
    IF IsInstance(e, "HTTPError") THEN e.status_code
    ELSE IF IsInstance(e, "ConnectionError") THEN "ConnectionError"
    ELSE IF IsInstance(e, "Timeout") THEN "Timeout"
    ELSE e.type

\* line 659: f"{error_code}: {error_msg}", kept as the pair it is built from
ErrorEntry(e) == <<ErrorCode(e), e.msg>>

\* line 659
AppendErrorLastOnly(log, e) == <<ErrorEntry(e)>>

AppendErrorCapped(log, e) ==
    IF Len(log) >= 2 THEN Append(Tail(log), ErrorEntry(e)) ELSE Append(log, ErrorEntry(e))

AppendError(log, e) == Append(log, ErrorEntry(e))

BoundReachedWhenExceeded(count, max) == count > max

\* line 677
BoundReached(count, max) == count >= max

ShowWarningsOnceOnly(handle, log) ==
    IF ~handle.exists
    THEN [exists |-> TRUE, color |-> "grey", items |-> log, created |-> 1]
    ELSE handle

\* lines 662-675: the warnings display after a failure, made by display() on
\* the first one (created counts the displays made) and updated through its
\* handle on the later ones
ShowWarnings(handle, log) ==
    IF ~handle.exists
    THEN [exists |-> TRUE, color |-> "grey", items |-> log, created |-> 1]
    ELSE [handle EXCEPT !.color = "grey", !.items = log]

\* lines 679-688: the f-string of line 682 names max_connection_errors, which
\* is neither a local nor a global of the module, so building errors_html
\* raises NameError; warnings_handle.update and the bare raise are not reached.
GiveUpException(e) == [type |-> "NameError", msg |-> 0, status_code |-> None]

\* lines 634-636
BuildResult(status, n, log) == [status |-> status, response |-> n, polling_errors |-> log]

(***************************************************************************)
(* _wait_for_translation_results, one iteration of `while True` per step.  *)
(***************************************************************************)
NoInput == [translated_models |-> << >>, polling_errors |-> << >>]

NoReport == [kind |-> None, pieces |-> << >>, exc |-> None]

NoModel ==
    [source_filename |-> << >>, asset_name |-> << >>, source_sql |-> << >>,
     target_sql |-> << >>, translation_status |-> << >>,
     failure_summary |-> [present |-> FALSE, problem |-> << >>,
                          error_message |-> << >>, solution |-> << >>,
                          location |-> << >>, reason |-> << >>]]

PollInit ==
    /\ max_errors \in 1..MaxErrorsBound
    /\ poll_interval \in PollIntervals
    /\ pc = "polling"
    /\ last_check_time = 0
    /\ connection_error_count = 0
    /\ error_log = << >>
    /\ warnings_handle = NoHandle
    /\ result = NoResult
    /\ exc = NoExc
    /\ clock = EpochStart
    /\ history = << >>
    /\ check_times = << >>

RenderIdle ==
    /\ rpc = "idle"
    /\ translation_results = NoInput
    /\ model_arg = NoModel
    /\ report = NoReport

\* an id that is None
NoneId == 0

NoError == [type |-> None, names |-> << >>]

\* no call of an entry point has begun
NoFrame ==
    [entry |-> None, step |-> "idle", host_arg |-> None, host |-> None,
     api_key |-> None,
     source_type |-> << >>, target_type |-> << >>, max_errors |-> 0,
     identity |-> None, listed |-> FALSE, data_sources |-> << >>,
     source_id |-> NoneId, target_id |-> NoneId,
     project_id |-> NoneId, translation_id |-> NoneId,
     org_token |-> None, queries |-> 0,
     wait |-> [project_id |-> NoneId, translation_id |-> NoneId, host |-> None],
     error |-> NoError,
     before |-> [notebook_host |-> None, current_api_key |-> None,
                 identity |-> None,
                 last_project_id |-> NoneId, last_translation_id |-> NoneId,
                 last_source_type |-> << >>, last_target_type |-> << >>]]

\* lines 47-53
GlobalsInit ==
    /\ _notebook_host = None
    /\ _current_api_key = None
    /\ _identity = None
    /\ _last_project_id = NoneId
    /\ _last_translation_id = NoneId
    /\ _last_source_type = << >>
    /\ _last_target_type = << >>

SessionIdle ==
    /\ GlobalsInit
    /\ frame = NoFrame
    /\ sent = << >>
    /\ ncalls = 0
    /\ jobs = << >>

\* the service answers every status request as it likes
FreeService == job_status = None

Init == PollInit /\ FreeService /\ RenderIdle /\ SessionIdle

\* lines 692-696 after an iteration that made no status check
Spin ==
    /\ pc = "polling"
    /\ ~CheckDue(clock, last_check_time, poll_interval)
    /\ clock' = clock + spinner_speed
    /\ UNCHANGED <<max_errors, poll_interval, pc, last_check_time,
                   connection_error_count, error_log, warnings_handle, result,
                   exc, history, check_times, job_status>>
    /\ UNCHANGED renderVars
    /\ UNCHANGED sessionVars

\* lines 604-696 for an iteration whose status check is due; o is what the
\* request does.  When the loop goes on, the clock advances by the sleep of
\* line 696; when the call ends the clock is not read again.
StatusCheck(o) ==
    LET current_time == clock
        n == Len(history) + 1
    IN
    /\ pc = "polling"
    /\ CheckDue(current_time, last_check_time, poll_interval)
    /\ history' = Append(history, o)
    /\ check_times' = Append(check_times, current_time)
    /\ IF o.ok
       THEN \* lines 609-636
            /\ connection_error_count' = CountAfterSuccess(connection_error_count)
            /\ UNCHANGED <<error_log, warnings_handle, exc>>
            /\ IF IsTerminal(o.status)
               THEN /\ result' = BuildResult(o.status, n, error_log)
                    /\ pc' = "returned"
                    /\ UNCHANGED clock
                    /\ UNCHANGED last_check_time
               ELSE /\ last_check_time' = current_time
                    /\ clock' = clock + spinner_speed
                    /\ UNCHANGED <<result, pc>>
       ELSE IF Caught(o.exc)
       THEN \* lines 642-690
            /\ connection_error_count' = connection_error_count + 1
            /\ error_log' = AppendError(error_log, o.exc)
            /\ warnings_handle' = ShowWarnings(warnings_handle, error_log')
            /\ UNCHANGED result
            /\ IF BoundReached(connection_error_count', max_errors)
               THEN /\ exc' = GiveUpException(o.exc)
                    /\ pc' = "raised"
                    /\ UNCHANGED clock
                    /\ UNCHANGED last_check_time
               ELSE /\ last_check_time' = current_time
                    /\ clock' = clock + spinner_speed
                    /\ UNCHANGED <<exc, pc>>
       ELSE \* the exception is not caught and leaves the call
            /\ exc' = o.exc
            /\ pc' = "raised"
            /\ UNCHANGED clock
            /\ UNCHANGED <<last_check_time, connection_error_count, error_log,
                           warnings_handle, result>>
    /\ UNCHANGED <<max_errors, poll_interval, job_status>>
    /\ UNCHANGED renderVars
    /\ UNCHANGED sessionVars

\* the status request succeeds: get_data returns, the body is a JSON object
\* with a status
PollResponse ==
    /\ Len(history) < MaxRequests
    /\ \E o \in Outcomes(Len(history) + 1) : o.ok /\ StatusCheck(o)

\* the status request raises in get_data, response.json() or result["status"]
PollException ==
    /\ Len(history) < MaxRequests
    /\ \E o \in Outcomes(Len(history) + 1) : ~o.ok /\ StatusCheck(o)

Next == Spin \/ PollResponse \/ PollException

Spec == Init /\ [][Next]_vars

(***************************************************************************)
(* Text.  A text is a sequence of characters; None and '' are both the     *)
(* empty text (the renderer only tests them for truth).  A word that holds *)
(* no digit, no blank and no markup character may stand as one character.  *)
(***************************************************************************)
NL == "\n"

Digits == {"0", "1", "2", "3", "4", "5", "6", "7", "8", "9"}

Whitespace == {" ", NL}

\* int() of one digit
DigitValue(c) ==
    CASE c = "0" -> 0 [] c = "1" -> 1 [] c = "2" -> 2 [] c = "3" -> 3
      [] c = "4" -> 4 [] c = "5" -> 5 [] c = "6" -> 6 [] c = "7" -> 7
      [] c = "8" -> 8 [] c = "9" -> 9

\* ord() of the characters identifiers are made of
Ord(c) ==
    CASE c \in Digits -> 48 + DigitValue(c)
      [] c = " " -> 32 [] c = "&" -> 38 [] c = "." -> 46
      [] c = "<" -> 60 [] c = ">" -> 62 [] c = "_" -> 95
      [] c = "a" -> 97 [] c = "b" -> 98 [] c = "c" -> 99 [] c = "e" -> 101
      [] c = "n" -> 110 [] c = "o" -> 111 [] c = "q" -> 113 [] c = "r" -> 114
      [] c = "s" -> 115 [] c = "t" -> 116 [] c = "u" -> 117 [] c = "x" -> 120
      [] c = "y" -> 121
      [] OTHER -> 0

\* s < t for two str, as Python compares them: by code point, a proper
\* prefix first
RECURSIVE StrLess(_, _)
StrLess(s, t) ==
    IF t = << >> THEN FALSE
    ELSE IF s = << >> THEN TRUE
    ELSE IF Ord(Head(s)) # Ord(Head(t)) THEN Ord(Head(s)) < Ord(Head(t))
    ELSE StrLess(Tail(s), Tail(t))

\* html.escape(s) with quote=True, character by character
EscapeChar(c) ==
    CASE c = "&" -> <<"&", "a", "m", "p", ";">>
      [] c = "<" -> <<"&", "l", "t", ";">>
      [] c = ">" -> <<"&", "g", "t", ";">>
      [] c = "\"" -> <<"&", "q", "u", "o", "t", ";">>
      [] c = "'" -> <<"&", "#", "x", "2", "7", ";">>
      [] OTHER -> <<c>>

RECURSIVE Escape(_)
Escape(s) == IF s = << >> THEN << >> ELSE EscapeChar(Head(s)) \o Escape(Tail(s))

\* str.splitlines() for texts whose only line boundary is "\n"
RECURSIVE SplitLines(_)
SplitLines(s) ==
    IF s = << >> THEN << >>
    ELSE LET nls == {i \in 1..Len(s) : s[i] = NL}
         IN IF nls = {} THEN <<s>>
            ELSE LET i == CHOOSE x \in nls : \A y \in nls : x <= y
                 IN <<SubSeq(s, 1, i - 1)>> \o SplitLines(SubSeq(s, i + 1, Len(s)))

NonBlankWhenNonEmpty(s) == s # << >>

\* bool(s.strip()): some character of s is not whitespace
NonBlank(s) == \E i \in 1..Len(s) : s[i] \notin Whitespace

\* str.title() for the labels of the model: lower-case words
UpperChar(c) ==
    CASE c = "s" -> "S" [] c = "d" -> "D" [] c = "b" -> "B" [] c = "q" -> "Q"
      [] c = "r" -> "R" [] OTHER -> c

IsLetter(c) == c \notin Digits \cup Whitespace \cup {"&", "<", ">", "_", ".", ";", "#"}

Title(s) ==
    [i \in 1..Len(s) |->
        IF IsLetter(s[i]) /\ (i = 1 \/ ~IsLetter(s[i - 1])) THEN UpperChar(s[i])
        ELSE s[i]]

(***************************************************************************)
(* _translation_results_html: the natural sort of the models.              *)
(***************************************************************************)
FirstDigitOnly(s) ==
    LET ds == {i \in 1..Len(s) : s[i] \in Digits}
    IN IF ds = {} THEN << >>
       ELSE LET lo == CHOOSE x \in ds : \A y \in ds : x <= y
            IN SubSeq(s, lo, lo)

\* re.findall(r'\d+', filename): the first match, << >> when there is none
FirstDigitRun(s) ==
    LET ds == {i \in 1..Len(s) : s[i] \in Digits}
    IN IF ds = {} THEN << >>
       ELSE LET lo == CHOOSE x \in ds : \A y \in ds : x <= y
                hi == CHOOSE x \in lo..Len(s) :
                          /\ \A y \in lo..x : s[y] \in Digits
                          /\ (x = Len(s) \/ s[x + 1] \notin Digits)
            IN SubSeq(s, lo, hi)

\* int() of a run of digits
RECURSIVE IntOf(_)
IntOf(ds) ==
    IF ds = << >> THEN 0
    ELSE 10 * IntOf(SubSeq(ds, 1, Len(ds) - 1)) + DigitValue(ds[Len(ds)])

\* lines 735 and 746: model.get('source_filename') or model['asset_name']
Filename(model) ==
    IF model.source_filename # << >> THEN model.source_filename ELSE model.asset_name

\* lines 733-740
natural_sort_key_lexical(model) == <<0, Filename(model)>>

natural_sort_key_undigited_last(model) ==
    LET filename == Filename(model)
        numbers == FirstDigitRun(filename)
    IN IF numbers # << >> THEN <<IntOf(numbers), filename>> ELSE <<1000, filename>>

natural_sort_key(model) ==
    LET filename == Filename(model)
        numbers == FirstDigitRun(filename)
    IN IF numbers # << >> THEN <<IntOf(numbers), filename>> ELSE <<0, filename>>

\* k1 < k2 for two (int, str) tuples
KeyLess(k1, k2) == k1[1] < k2[1] \/ (k1[1] = k2[1] /\ StrLess(k1[2], k2[2]))

\* line 743: sorted(models, key=natural_sort_key), a stable sort: each model
\* goes after the models before it in the input whose key is not greater
RECURSIVE Sorted(_)
Sorted(models) ==
    IF models = << >> THEN << >>
    ELSE LET n == Len(models)
             x == models[n]
             front == Sorted(SubSeq(models, 1, n - 1))
             keep == {i \in 0..(n - 1) :
                         \A j \in 1..i :
                             ~KeyLess(natural_sort_key(x), natural_sort_key(front[j]))}
             at == CHOOSE i \in keep : \A j \in keep : j <= i
         IN SubSeq(front, 1, at) \o <<x>> \o SubSeq(front, at + 1, n - 1)

(***************************************************************************)
(* difflib.Differ().compare on two lists of lines (line 931).  A diff line *)
(* is its two-character prefix, kept as tag, and the line.  Differ finds   *)
(* the matching blocks of SequenceMatcher (the longest block first, the    *)
(* earliest in the source and then in the target among the longest, then   *)
(* the same to its left and to its right) and walks through them.  The     *)
(* "? " hint lines and the interleaving of "- " and "+ " lines inside one  *)
(* replaced block are not modelled: lines 937-956 drop the hints and send  *)
(* "- " lines to the source column and "+ " lines to the target column.    *)
(* Positions are counted from 0, ranges are half-open, as in difflib.      *)
(***************************************************************************)
FindLongestMatch(a, b, alo, ahi, blo, bhi) ==
    LET Min(x, y) == IF x < y THEN x ELSE y
        ms == {m \in (alo..(ahi - 1)) \X (blo..(bhi - 1)) \X (1..(ahi - alo)) :
                  /\ m[3] <= Min(ahi - m[1], bhi - m[2])
                  /\ \A d \in 0..(m[3] - 1) : a[m[1] + d + 1] = b[m[2] + d + 1]}
        Better(m, o) ==
            \/ m[3] > o[3]
            \/ m[3] = o[3] /\ m[1] < o[1]
            \/ m[3] = o[3] /\ m[1] = o[1] /\ m[2] <= o[2]
    IN IF ms = {} THEN <<alo, blo, 0>>
       ELSE CHOOSE m \in ms : \A o \in ms : Better(m, o)

RECURSIVE MatchingBlocks(_, _, _, _, _, _)
MatchingBlocks(a, b, alo, ahi, blo, bhi) ==
    LET m == FindLongestMatch(a, b, alo, ahi, blo, bhi)
        i == m[1]
        j == m[2]
        k == m[3]
    IN IF k = 0 THEN << >>
       ELSE (IF alo < i /\ blo < j THEN MatchingBlocks(a, b, alo, i, blo, j) ELSE << >>)
            \o <<m>>
            \o (IF i + k < ahi /\ j + k < bhi
                THEN MatchingBlocks(a, b, i + k, ahi, j + k, bhi) ELSE << >>)

\* Differ._dump
Dump(tag, x, lo, hi) == [d \in 1..(hi - lo) |-> [tag |-> tag, line |-> x[lo + d]]]

RECURSIVE Opcodes(_, _, _, _, _)
Opcodes(a, b, blocks, i, j) ==
    IF blocks = << >> THEN << >>
    ELSE LET ai == Head(blocks)[1]
             bj == Head(blocks)[2]
             size == Head(blocks)[3]
         IN Dump("-", a, i, ai) \o Dump("+", b, j, bj) \o Dump(" ", a, ai, ai + size)
            \o Opcodes(a, b, Tail(blocks), ai + size, bj + size)

DifferCompare(a, b) ==
    Opcodes(a, b,
            MatchingBlocks(a, b, 0, Len(a), 0, Len(b)) \o <<<<Len(a), Len(b), 0>>>>,
            0, 0)

(***************************************************************************)
(* The report.  The HTML string is kept as the sequence of its pieces:     *)
(* each piece is a fragment of the template, named by m, followed by the   *)
(* text the code interpolates after it (empty when there is none).         *)
(***************************************************************************)
Piece(m, text) == [m |-> m, text |-> text]

Returned(pieces) == [kind |-> "returned", pieces |-> pieces, exc |-> None]

RaisedReport(type) == [kind |-> "raised", pieces |-> << >>, exc |-> type]

\* TranslationStatus.VALID_TRANSLATION (line 36), one word
VALID_TRANSLATION == <<"valid_translation">>

\* the icons of line 749
IconValid == "(check mark)"

IconWarning == "(warning sign)"

(***************************************************************************)
(* _render_translated_model_as_html (lines 854-1078).                      *)
(***************************************************************************)
FailureContentLocationAlways(failure_summary) ==
    <<Piece("failure-label Problem:", Escape(failure_summary.problem)),
      Piece("failure-label Location:", Escape(failure_summary.location)),
      Piece("failure-label Error:", Escape(failure_summary.error_message)),
      Piece("failure-label Solution:", Escape(failure_summary.solution)),
      Piece("failure-label Reason:", Escape(failure_summary.reason))>>

\* lines 883-911: the fields of failure_summary
FailureContent(failure_summary) ==
    LET problem == Escape(failure_summary.problem)
        error_message == Escape(failure_summary.error_message)
        solution == Escape(failure_summary.solution)
        location == IF failure_summary.location # << >>
                    THEN Escape(failure_summary.location) ELSE << >>
        reason == Escape(failure_summary.reason)
    IN <<Piece("failure-label Problem:", problem)>>
       \o (IF location # << >> THEN <<Piece("failure-label Location:", location)>>
           ELSE << >>)
       \o <<Piece("failure-label Error:", error_message),
            Piece("failure-label Solution:", solution),
            Piece("failure-label Reason:", reason)>>

\* lines 878-922
WarningHtml(model) ==
    LET status == model.translation_status
        is_failed == status # VALID_TRANSLATION
        failure_summary == model.failure_summary
    IN IF ~is_failed THEN << >>
       ELSE <<Piece("details.warning-details summary Warnings", << >>)>>
            \o (IF failure_summary.present THEN FailureContent(failure_summary)
                ELSE <<Piece("warning-message The translation could not be completed. Status:",
                             Escape(status))>>)
            \o <<Piece("/details.warning-details", << >>)>>

RECURSIVE SourceHtmlWithAdded(_)
SourceHtmlWithAdded(diff) ==
    IF diff = << >> THEN << >>
    ELSE LET line == Head(diff)
         IN (IF line.tag = " " THEN <<Piece("line unchanged", Escape(line.line))>>
             ELSE IF line.tag = "-" THEN <<Piece("line removed", Escape(line.line))>>
             ELSE <<Piece("line added", Escape(line.line))>>)
            \o SourceHtmlWithAdded(Tail(diff))

\* lines 933-956: the two columns
RECURSIVE SourceHtml(_)
SourceHtml(diff) ==
    IF diff = << >> THEN << >>
    ELSE LET line == Head(diff)
         IN (IF line.tag = " " THEN <<Piece("line unchanged", Escape(line.line))>>
             ELSE IF line.tag = "-" THEN <<Piece("line removed", Escape(line.line))>>
             ELSE << >>)
            \o SourceHtml(Tail(diff))

RECURSIVE TargetHtml(_)
TargetHtml(diff) ==
    IF diff = << >> THEN << >>
    ELSE LET line == Head(diff)
         IN (IF line.tag = " " THEN <<Piece("line unchanged", Escape(line.line))>>
             ELSE IF line.tag = "-" THEN << >>
             ELSE IF line.tag = "+" THEN <<Piece("line added", Escape(line.line))>>
             ELSE << >>)
            \o TargetHtml(Tail(diff))

\* lines 924-969
DiffHtml(model, source_type, target_type) ==
    LET source_sql == model.source_sql
        target_sql == model.target_sql
        has_translation_result == target_sql # << >> /\ NonBlank(target_sql)
    IN IF ~has_translation_result THEN << >>
       ELSE LET diff == DifferCompare(SplitLines(source_sql), SplitLines(target_sql))
            IN <<Piece("sql-container", << >>),
                 Piece("sql-column h3", Title(source_type) \o <<" ", "SQL">>)>>
               \o SourceHtml(diff)
               \o <<Piece("sql-column h3", Title(target_type) \o <<" ", "SQL">>)>>
               \o TargetHtml(diff)
               \o <<Piece("/sql-container", << >>)>>

\* lines 868-1078
RenderTranslatedModelAsHtml(model, source_type, target_type) ==
    LET content_html == WarningHtml(model) \o DiffHtml(model, source_type, target_type)
    IN <<Piece("style (model)", << >>)>>
       \o (IF content_html = << >>
           THEN <<Piece("p No translation results available.", << >>)>>
           ELSE content_html)

(***************************************************************************)
(* _translation_results_html (lines 699-851).                              *)
(***************************************************************************)
StatusIconFailedOnly(status) ==
    IF status = <<"invalid_translation">> THEN IconWarning ELSE IconValid

\* line 748: the marker on the button
StatusIcon(status) ==
    IF status = VALID_TRANSLATION THEN IconValid ELSE IconWarning

\* lines 745-760: the section of one model.  The filename goes into the
\* button as it is.
ModelSection(model, source_type, target_type) ==
    LET filename == Filename(model)
        status == model.translation_status
        icon == StatusIcon(status)
        button_text == <<icon, " ">> \o filename
    IN <<Piece("button.collapsible", button_text), Piece("div.content", << >>)>>
       \o RenderTranslatedModelAsHtml(model, source_type, target_type)
       \o <<Piece("/div.content", << >>)>>

RECURSIVE ModelSections(_, _, _)
ModelSections(models, source_type, target_type) ==
    IF models = << >> THEN << >>
    ELSE ModelSection(Head(models), source_type, target_type)
         \o ModelSections(Tail(models), source_type, target_type)

\* Line 713 binds the name html to a list for the whole function, so the
\* html.escape(err) of line 719, evaluated once per polling error, is an
\* attribute lookup on that list and raises AttributeError.  With no polling
\* error line 719 is not evaluated.
TranslationResultsHtml(tr, source_type, target_type) ==
    LET polling_errors == tr.polling_errors
        models == tr.translated_models
    IN IF polling_errors # << >> THEN RaisedReport("AttributeError")
       ELSE LET models_sorted == Sorted(models)
                html == ModelSections(models_sorted, source_type, target_type)
            IN IF models = << >>
               THEN Returned(<<Piece("No queries were translated.", << >>)>>)
               ELSE Returned(<<Piece("style script", << >>)>> \o html)

(***************************************************************************)
(* The job results the renderer is called with: up to MaxModels models of  *)
(* ModelPool, in any order and with repetition, and the polling errors of  *)
(* a session with no, one or two transient failures.                       *)
(***************************************************************************)
Query(number) == <<"q", "u", "e", "r", "y", "_">> \o number

NoSummary ==
    [present |-> FALSE, problem |-> << >>, error_message |-> << >>,
     solution |-> << >>, location |-> << >>, reason |-> << >>]

SummaryWithLocation ==
    [present |-> TRUE, problem |-> <<"a", "<", "b">>, error_message |-> <<"e", "&">>,
     solution |-> <<"s">>, location |-> <<"c", ">", "1">>, reason |-> <<"tool_error">>]

SummaryWithoutLocation ==
    [present |-> TRUE, problem |-> <<"x", ">", "y">>, error_message |-> <<"e">>,
     solution |-> <<"s", "&", "t">>, location |-> << >>, reason |-> <<"max_iterations">>]

Model(source_filename, asset_name, source_sql, target_sql, status, summary) ==
    [source_filename |-> source_filename, asset_name |-> asset_name,
     source_sql |-> source_sql, target_sql |-> target_sql,
     translation_status |-> status, failure_summary |-> summary]

ModelPool ==
    {Model(Query(<<"2">>), <<"a">>, <<"a", NL, "b", NL, "c">>,
           <<"a", NL, "x", NL, "c">>, VALID_TRANSLATION, NoSummary),
     Model(Query(<<"1", "0">>), <<"b">>, <<"a", NL, "b">>, <<"a", NL, "b", NL>>,
           VALID_TRANSLATION, NoSummary),
     Model(Query(<<"2", "1">>), <<"c">>, <<"a", "<", "b", NL, "c">>,
           <<"c", NL, "a", "&", "b">>, <<"invalid_translation">>, SummaryWithLocation),
     Model(<< >>, <<"n", "o", "t", "e", "s">>, <<"a">>, << >>,
           <<"invalid_translation">>, SummaryWithoutLocation),
     Model(<<"a", "&", "<", "b", ">", "1">>, <<"a">>, <<"x", "<", "y">>,
           <<"x", ">", "y">>, VALID_TRANSLATION, NoSummary),
     Model(<< >>, Query(<<"2">>), <<"a", NL, "b">>, <<" ", NL>>,
           <<"no_translation_attempts">>, NoSummary),
     Model(<<"x", "0">>, <<"a">>, <<"a">>, << >>, <<"<", "b", ">">>, NoSummary),
     Model(<<"r", "7", "_", "3">>, <<"a">>, <<"a">>, << >>, VALID_TRANSLATION,
           NoSummary)}

PollingErrorLists ==
    {<< >>,
     <<<<"ConnectionError", ":", " ", "<", "u", ">">>>>,
     <<<<"ConnectionError", ":", " ", "<", "u", ">">>,
       <<"5", "0", "3", ":", " ", "a", "&", "b">>>>}

\* all sequences over S of length at most n
SeqsUpTo(S, n) == UNION {[1..k -> S] : k \in 0..n}

JobResults ==
    {[translated_models |-> ms, polling_errors |-> es] :
        ms \in SeqsUpTo(ModelPool, MaxModels), es \in PollingErrorLists}

\* the defaults of line 700
DefaultSourceType == <<"s", "n", "o", "w", "f", "l", "a", "k", "e">>

DefaultTargetType == <<"d", "a", "t", "a", "b", "r", "i", "c", "k", "s">>

\* no poll loop is running
PollIdle ==
    /\ max_errors = 5
    /\ poll_interval = 5
    /\ pc = "idle"
    /\ last_check_time = 0
    /\ connection_error_count = 0
    /\ error_log = << >>
    /\ warnings_handle = NoHandle
    /\ result = NoResult
    /\ exc = NoExc
    /\ clock = EpochStart
    /\ history = << >>
    /\ check_times = << >>
    /\ job_status = None

(***************************************************************************)
(* The poll loop against a service that answers from a remote job: the job *)
(* runs, and at some moment it may end as done or failed; a status request *)
(* that is answered reports the status the job has, and any request may    *)
(* still fail.  The loop itself is one thread that goes from one iteration *)
(* to the next (lines 603-696), which the fairness condition expresses;    *)
(* every request is taken to end, with an answer or an exception.          *)
(***************************************************************************)
JobStatuses == {"running", "done", "failed"}

LiveExcTypes == {"ConnectionError", "HTTPError", "KeyError"}

LiveOutcomes(n) ==
    {[ok |-> TRUE, status |-> job_status, exc |-> NoExc]}
    \cup {[ok |-> FALSE, status |-> None, exc |-> Raised(t, n)] : t \in LiveExcTypes}

LiveInit == PollInit /\ job_status = "running" /\ RenderIdle /\ SessionIdle

\* the remote job ends
JobEnds ==
    /\ pc = "polling"
    /\ job_status = "running"
    /\ job_status' \in {"done", "failed"}
    /\ UNCHANGED <<max_errors, poll_interval, pc, last_check_time,
                   connection_error_count, error_log, warnings_handle, result,
                   exc, clock, history, check_times>>
    /\ UNCHANGED renderVars
    /\ UNCHANGED sessionVars

\* an iteration with a status request
LiveCheck ==
    /\ Len(history) < MaxRequests
    /\ \E o \in LiveOutcomes(Len(history) + 1) : StatusCheck(o)

\* one iteration of `while True`
LiveIteration == Spin \/ LiveCheck

LiveNext == Spin \/ LiveCheck \/ JobEnds

SpecLive == LiveInit /\ [][LiveNext]_vars /\ WF_vars(LiveIteration)

RenderInit ==
    /\ PollIdle
    /\ SessionIdle
    /\ rpc = "called"
    /\ translation_results \in JobResults
    /\ model_arg = NoModel
    /\ report = NoReport

\* one call of _translation_results_html
RenderReport ==
    /\ rpc = "called"
    /\ model_arg = NoModel
    /\ report' = TranslationResultsHtml(translation_results, DefaultSourceType,
                                        DefaultTargetType)
    /\ rpc' = "done"
    /\ UNCHANGED <<translation_results, model_arg>>
    /\ UNCHANGED pollVars
    /\ UNCHANGED sessionVars

(***************************************************************************)
(* _render_translated_model_as_html called on one model: every pair of a   *)
(* source text and a target text of up to MaxLines lines over DiffLines    *)
(* with the status valid_translation, and a choice of target texts with    *)
(* every status and failure summary.                                       *)
(***************************************************************************)
DiffLines == {<<"a">>, <<"b">>, <<"c">>, <<"x">>}

\* "\n".join(lines)
RECURSIVE JoinLines(_)
JoinLines(lines) ==
    IF lines = << >> THEN << >>
    ELSE IF Len(lines) = 1 THEN Head(lines)
    ELSE Head(lines) \o <<NL>> \o JoinLines(Tail(lines))

DiffTexts == {JoinLines(lines) : lines \in SeqsUpTo(DiffLines, MaxLines)}

DiffModels ==
    {Model(Query(<<"1">>), <<"a">>, source_sql, target_sql, VALID_TRANSLATION,
           NoSummary) : source_sql \in DiffTexts, target_sql \in DiffTexts}

VariedModels ==
    {Model(<<"q">>, <<"a">>, <<"a", "<", "b", NL, "c", NL>>, target_sql, status, summary) :
        target_sql \in {<< >>, <<" ", NL>>, <<"a", NL, "x">>,
                        <<"a", "<", "b", NL, "x", "&", "y">>},
        status \in {VALID_TRANSLATION, <<"invalid_translation">>,
                    <<"no_translation_attempts">>, <<"<", "b", ">">>},
        summary \in {NoSummary, SummaryWithLocation, SummaryWithoutLocation}}

ModelArgs == DiffModels \cup VariedModels

ModelInit ==
    /\ PollIdle
    /\ SessionIdle
    /\ rpc = "called"
    /\ translation_results = NoInput
    /\ model_arg \in ModelArgs
    /\ report = NoReport

\* one call of _render_translated_model_as_html
RenderModel ==
    /\ rpc = "called"
    /\ model_arg # NoModel
    /\ report' = Returned(RenderTranslatedModelAsHtml(model_arg, DefaultSourceType,
                                                      DefaultTargetType))
    /\ rpc' = "done"
    /\ UNCHANGED <<translation_results, model_arg>>
    /\ UNCHANGED pollVars
    /\ UNCHANGED sessionVars

SpecModel == ModelInit /\ [][RenderModel]_vars

RenderNext == RenderReport

SpecRender == RenderInit /\ [][RenderNext]_vars

(***************************************************************************)
(* Part 3: the entry points of the module and the requests they issue.     *)
(*                                                                         *)
(* A session is a sequence of at most MaxCalls calls of entry points in    *)
(* one interpreter, so that the module globals carry over from one call to *)
(* the next.  A call advances by one action per HTTP request: the action   *)
(* covers the code from that request to just before the next one.  What    *)
(* the request does is an input of the action: it succeeds, or it raises   *)
(* requests.ConnectionError, or HTTPError from raise_for_status            *)
(* (utils.py lines 16-42 print and re-raise both).  The status requests of *)
(* _wait_for_translation_results are the actions of part 1.                *)
(***************************************************************************)
DEFAULT_HOST == "https://app.datafold.com"

SnowflakeType == DefaultSourceType

DatabricksType == DefaultTargetType

RedshiftType == <<"r", "e", "d", "s", "h", "i", "f", "t">>

DataSource(type, id) == [type |-> type, id |-> id]

\* the bodies the service gives to GET api/v1/data_sources
DataSourceLists ==
    {<< >>,
     <<DataSource(SnowflakeType, 1)>>,
     <<DataSource(DatabricksType, 2)>>,
     <<DataSource(SnowflakeType, 1), DataSource(DatabricksType, 2)>>,
     <<DataSource(RedshiftType, 3), DataSource(DatabricksType, 2)>>}

RequestOutcomes == {"ok", "ConnectionError", "HTTPError"}

RequestFailsOnConnectionErrorOnly(o) == o = "ConnectionError"

\* post_data and get_data raise when the request does not succeed
RequestFails(o) == o # "ok"

GetHostForgetsSession(host, notebook_host) ==
    IF host # None THEN host ELSE DEFAULT_HOST

\* lines 106-116
GetHost(host, notebook_host) ==
    IF host # None THEN host
    ELSE IF notebook_host # None THEN notebook_host
    ELSE DEFAULT_HOST

NotebookHostAfter(host, notebook_host) ==
    IF host # None THEN host ELSE notebook_host

\* line 20
DEFAULT_ORG_TOKEN == "zda4wct*ZBF3ybt3vfz"

\* lines 285-286, 360-361 and 403-404
OrgTokenOf(org_token) == IF org_token = None THEN DEFAULT_ORG_TOKEN ELSE org_token

\* the api_token of the response of line 155: the service gives every
\* organization it creates a key of its own
OrgKeys == <<"k_org1", "k_org2", "k_org3", "k_org4", "k_org5">>

OrgKey(n) == OrgKeys[n]

\* the decimal digits of str(n), n > 0
RECURSIVE Decimal(_)
Decimal(n) ==
    LET digit == CHOOSE d \in Digits : DigitValue(d) = n % 10
    IN IF n < 10 THEN <<digit>> ELSE Append(Decimal(n \div 10), digit)

\* lines 518-523: the filenames of the payload, f"query_{i+1}.sql" for
\* i = 0 .. len(queries) - 1
UploadNames(queries) ==
    [k \in 1..queries |->
        <<"q", "u", "e", "r", "y", "_">> \o Decimal(k) \o <<".", "s", "q", "l">>]

\* the calls of a session: every entry point, with and without a host and
\* an organization token
Call(entry, host, org_token, source_type, target_type, max_errs) ==
    [entry |-> entry, host |-> host, org_token |-> org_token,
     source_type |-> source_type, target_type |-> target_type,
     max_errors |-> max_errs]

Calls ==
    {Call("translate_queries_and_render_results", None, None,
          SnowflakeType, DatabricksType, 1),
     Call("translate_queries_and_render_results", "h1", None,
          RedshiftType, DatabricksType, 2),
     Call("translate_queries_and_get_results", None, None, << >>, << >>, 2),
     Call("translate_queries_and_get_results", "h2", "t1", << >>, << >>, 2),
     Call("translate_queries", None, None, << >>, << >>, 0),
     Call("translate_queries", "h1", None, << >>, << >>, 0),
     Call("view_last_translation", None, None, << >>, << >>, 0),
     Call("view_last_translation", "h2", "t1", << >>, << >>, 0),
     Call("create_organization", None, "t1", << >>, << >>, 0),
     Call("create_organization", "h1", "t1", << >>, << >>, 0)}

\* the job results the service gives once the job has ended
ServedModels ==
    {<< >>,
     <<Model(Query(<<"1">>), <<"a">>, <<"a", NL, "b">>, <<"a", NL, "x">>,
             VALID_TRANSLATION, NoSummary)>>}

\* the entry of the error log as the string of line 659
ErrorText(entry) == <<entry[1], ":", " ", "m">>

ErrorTexts(log) == [i \in 1..Len(log) |-> ErrorText(log[i])]

\* a request as the service sees it: the URL (host, project and job), the
\* bearer of the Authorization header (the organization token of line 152,
\* the API key elsewhere), the filenames of the payload of an upload, and
\* what the service answered
Request(op, o, f) ==
    [op |-> op, outcome |-> o, host |-> f.host, api_key |-> f.api_key,
     org_token |-> IF op = "org" THEN f.org_token ELSE None,
     project_id |-> f.project_id, translation_id |-> f.translation_id,
     files |-> IF op = "files" THEN UploadNames(f.queries) ELSE << >>,
     returned |-> NoneId, returned_key |-> None]

\* the id of the response of a request that succeeded (lines 189 and 556)
Answered(request, id) ==
    IF RequestFails(request.outcome) THEN request
    ELSE [request EXCEPT !.returned = id]

\* the api_token of the response of a request that succeeded (line 155)
AnsweredKey(request, key) ==
    IF RequestFails(request.outcome) THEN request
    ELSE [request EXCEPT !.returned_key = key]

Fail(f, type, names) ==
    [f EXCEPT !.step = "raised", !.error = [type |-> type, names |-> names]]

OfType(data_sources, type) == SelectSeq(data_sources, LAMBDA d : d.type = type)

NotOfType(data_sources, type) == SelectSeq(data_sources, LAMBDA d : d.type # type)

RenderSelectionFallsBack(f, data_sources) ==
    LET source_ds == IF OfType(data_sources, f.source_type) # << >>
                     THEN OfType(data_sources, f.source_type)
                     ELSE NotOfType(data_sources, f.target_type)
        target_ds == OfType(data_sources, f.target_type)
    IN IF target_ds = << >> \/ source_ds = << >>
       THEN Fail(f, "ValueError", f.target_type)
       ELSE [f EXCEPT !.step = "project", !.source_id = source_ds[1].id,
                      !.target_id = target_ds[1].id]

\* lines 306-319: the data sources of the two types of the call
RenderSelection(f, data_sources) ==
    LET source_ds == OfType(data_sources, f.source_type)
        target_ds == OfType(data_sources, f.target_type)
    IN IF source_ds = << >> THEN Fail(f, "ValueError", f.source_type)
       ELSE IF target_ds = << >> THEN Fail(f, "ValueError", f.target_type)
       ELSE [f EXCEPT !.step = "project", !.source_id = source_ds[1].id,
                      !.target_id = target_ds[1].id]

\* lines 183-184: [...][0] on an empty list raises IndexError("list index
\* out of range"), a message that names nothing
TranslateSelection(f, data_sources) ==
    LET sources == NotOfType(data_sources, DatabricksType)
        targets == OfType(data_sources, DatabricksType)
    IN IF sources = << >> THEN Fail(f, "IndexError", << >>)
       ELSE IF targets = << >> THEN Fail(f, "IndexError", << >>)
       ELSE [f EXCEPT !.step = "project", !.source_id = sources[1].id,
                      !.target_id = targets[1].id]

lastVars ==
    <<_last_project_id, _last_translation_id, _last_source_type, _last_target_type>>

\* the session begins with its first call
SessionInit == PollIdle /\ RenderIdle /\ SessionIdle

\* a call begins with no poll loop running and nothing rendered; the clock
\* is counted from the start of the call
NoLoopRuns ==
    /\ max_errors' = 5
    /\ poll_interval' = 5
    /\ pc' = "idle"
    /\ last_check_time' = 0
    /\ connection_error_count' = 0
    /\ error_log' = << >>
    /\ warnings_handle' = NoHandle
    /\ result' = NoResult
    /\ exc' = NoExc
    /\ clock' = EpochStart
    /\ history' = << >>
    /\ check_times' = << >>
    /\ UNCHANGED job_status

NothingRendered ==
    /\ rpc' = "idle"
    /\ translation_results' = NoInput
    /\ model_arg' = NoModel
    /\ report' = NoReport

NothingRememberedNever(last_project_id, last_translation_id) == FALSE

\* lines 399-401: no translation is remembered
NothingRemembered(last_project_id, last_translation_id) ==
    last_project_id = NoneId \/ last_translation_id = NoneId

\* an entry point is called: the code up to the first request.
\* translate_queries (line 179) and create_organization (line 150) resolve
\* the host first; view_last_translation returns at once when no
\* translation is remembered (lines 399-401).
Begin(c) ==
    LET called ==
            [NoFrame EXCEPT
                !.entry = c.entry, !.host_arg = c.host,
                !.org_token = IF c.entry = "translate_queries" THEN None
                              ELSE OrgTokenOf(c.org_token),
                !.queries = CallQueries,
                !.source_type = c.source_type, !.target_type = c.target_type,
                !.max_errors = c.max_errors,
                !.before = [notebook_host |-> _notebook_host,
                            current_api_key |-> _current_api_key,
                            identity |-> _identity,
                            last_project_id |-> _last_project_id,
                            last_translation_id |-> _last_translation_id,
                            last_source_type |-> _last_source_type,
                            last_target_type |-> _last_target_type]]
    IN
    /\ frame.step \in {"idle", "returned", "raised"}
    /\ ncalls < MaxCalls
    /\ ncalls' = ncalls + 1
    /\ sent' = << >>
    /\ NoLoopRuns
    /\ NothingRendered
    /\ IF c.entry = "translate_queries"
       THEN /\ frame' = [called EXCEPT !.api_key = "k_user",
                                       !.host = GetHost(c.host, _notebook_host),
                                       !.step = "data_sources"]
            /\ _notebook_host' = NotebookHostAfter(c.host, _notebook_host)
       ELSE IF c.entry = "create_organization"
       THEN /\ frame' = [called EXCEPT !.host = GetHost(c.host, _notebook_host),
                                       !.step = "org"]
            /\ _notebook_host' = NotebookHostAfter(c.host, _notebook_host)
       ELSE IF c.entry = "view_last_translation"
       THEN /\ frame' = [called EXCEPT
                           !.step = IF NothingRemembered(_last_project_id,
                                                         _last_translation_id)
                                    THEN "returned" ELSE "api_key"]
            /\ UNCHANGED _notebook_host
       ELSE /\ frame' = [called EXCEPT !.identity = "context", !.step = "api_key"]
            /\ UNCHANGED _notebook_host
    /\ UNCHANGED <<_current_api_key, _identity, lastVars, jobs>>

\* the code after _get_current_api_key has given a key: _set_identity and
\* _get_host (lines 295-301, 367-376 and 179), or _get_host alone in
\* view_last_translation (line 418)
AfterApiKey(f, api_key) ==
    [f EXCEPT !.api_key = api_key,
              !.host = GetHost(f.host_arg, _notebook_host),
              !.step = IF f.entry = "view_last_translation" THEN "fetch"
                       ELSE "data_sources"]

IdentityAfter(f) ==
    IF f.entry = "view_last_translation" THEN _identity ELSE f.identity

\* _get_current_api_key finds the key of the session (lines 122-123)
ApiKeyCached ==
    /\ frame.step = "api_key"
    /\ _current_api_key # None
    /\ frame' = AfterApiKey(frame, _current_api_key)
    /\ _notebook_host' = NotebookHostAfter(frame.host_arg, _notebook_host)
    /\ _identity' = IdentityAfter(frame)
    /\ UNCHANGED <<_current_api_key, lastVars, sent, ncalls, jobs>>
    /\ UNCHANGED <<pollVars, renderVars>>

SetCurrentApiKeyOnce(current_api_key, api_key) ==
    IF current_api_key # None THEN current_api_key ELSE api_key

\* _set_current_api_key (lines 133-136)
SetCurrentApiKey(current_api_key, api_key) == api_key

\* _get_current_api_key creates an organization (lines 124-128, 139-162):
\* the host resolved on line 125 is given to create_organization, whose
\* _get_host (line 150) records it
ApiKeyCreated(o) ==
    LET host == GetHost(frame.host_arg, _notebook_host)
        f == [frame EXCEPT !.host = host]
        api_key == OrgKey(ncalls)
    IN
    /\ frame.step = "api_key"
    /\ _current_api_key = None
    /\ sent' = Append(sent, AnsweredKey(Request("org", o, f), api_key))
    /\ _notebook_host' = NotebookHostAfter(host, _notebook_host)
    /\ IF RequestFails(o)
       THEN /\ frame' = Fail(f, o, << >>)
            /\ UNCHANGED <<_current_api_key, _identity>>
       ELSE /\ _current_api_key' = SetCurrentApiKey(_current_api_key, api_key)
            /\ frame' = AfterApiKey(frame, api_key)
            /\ _identity' = IdentityAfter(frame)
    /\ UNCHANGED <<lastVars, ncalls, jobs>>
    /\ UNCHANGED <<pollVars, renderVars>>

\* create_organization called directly (lines 139-162)
CreateOrganization(o) ==
    LET api_key == OrgKey(ncalls)
    IN
    /\ frame.step = "org"
    /\ sent' = Append(sent, AnsweredKey(Request("org", o, frame), api_key))
    /\ IF RequestFails(o)
       THEN /\ frame' = Fail(frame, o, << >>)
            /\ UNCHANGED _current_api_key
       ELSE /\ _current_api_key' = SetCurrentApiKey(_current_api_key, api_key)
            /\ frame' = [frame EXCEPT !.api_key = api_key, !.step = "returned"]
    /\ UNCHANGED <<_notebook_host, _identity, lastVars, ncalls, jobs>>
    /\ UNCHANGED <<pollVars, renderVars>>

\* the helpers are given the resolved host, and their own _get_host (lines
\* 450, 473, 513, 541 and 585) records it
HelperCalled ==
    /\ _notebook_host' = NotebookHostAfter(frame.host, _notebook_host)
    /\ UNCHANGED <<_current_api_key, _identity, ncalls>>

\* _get_data_sources and the choice of the two data sources (lines 182-184
\* and 304-319)
GetDataSources(o, data_sources) ==
    /\ frame.step = "data_sources"
    /\ sent' = Append(sent, Request("data_sources", o, frame))
    /\ frame' = LET f == [frame EXCEPT !.listed = TRUE,
                                        !.data_sources = data_sources]
                IN IF RequestFails(o) THEN Fail(frame, o, << >>)
                   ELSE IF frame.entry = "translate_queries_and_render_results"
                   THEN RenderSelection(f, data_sources)
                   ELSE TranslateSelection(f, data_sources)
    /\ HelperCalled
    /\ UNCHANGED <<lastVars, jobs>>
    /\ UNCHANGED <<pollVars, renderVars>>

StepAfterSkipsUpload(step) == "start"

\* the statement that follows a request that succeeded: lines 185-196 and
\* 322-334
StepAfter(step) ==
    IF step = "project" THEN "upload" ELSE "start"

\* _create_dma_project (lines 185-189 and 321-326); the service numbers the
\* projects of the session
CreateProject(o) ==
    /\ frame.step = "project"
    /\ sent' = Append(sent, Answered(Request("projects", o, frame), ncalls))
    /\ frame' = IF RequestFails(o) THEN Fail(frame, o, << >>)
                ELSE [frame EXCEPT !.project_id = ncalls,
                                   !.step = StepAfter(frame.step)]
    /\ HelperCalled
    /\ UNCHANGED <<lastVars, jobs>>
    /\ UNCHANGED <<pollVars, renderVars>>

\* _upload_queries (lines 192 and 329)
UploadQueries(o) ==
    /\ frame.step = "upload"
    /\ sent' = Append(sent, Request("files", o, frame))
    /\ frame' = IF RequestFails(o) THEN Fail(frame, o, << >>)
                ELSE [frame EXCEPT !.step = StepAfter(frame.step)]
    /\ HelperCalled
    /\ UNCHANGED <<lastVars, jobs>>
    /\ UNCHANGED <<pollVars, renderVars>>

\* the poll loop is entered with the arguments of lines 344-346 (or 253-255)
\* and the locals of lines 593-601
WaitBegins(max_errs) ==
    /\ max_errors' = max_errs
    /\ poll_interval' = CallerPollInterval
    /\ pc' = "polling"
    /\ last_check_time' = 0
    /\ connection_error_count' = 0
    /\ error_log' = << >>
    /\ warnings_handle' = NoHandle
    /\ result' = NoResult
    /\ exc' = NoExc
    /\ history' = << >>
    /\ check_times' = << >>
    /\ UNCHANGED <<clock, job_status>>

LastIdAfterAnyAnswer(o, id, last) == id

\* lines 199-200 and 337-338 are reached when _start_translation returned
LastIdAfter(o, id, last) == IF RequestFails(o) THEN last ELSE id

LastTypeAfterAnyEntry(o, entry, type, last) ==
    IF RequestFails(o) THEN last ELSE type

\* lines 339-340, which translate_queries (lines 197-202) has not
LastTypeAfter(o, entry, type, last) ==
    IF RequestFails(o) \/ entry # "translate_queries_and_render_results"
    THEN last ELSE type

\* the job whose status the poll loop asks for: the arguments of lines
\* 344-346, or of lines 377-379 where the ids are those translate_queries
\* returned and the host is resolved anew on line 252
WaitArguments(f, translation_id) ==
    [project_id |-> f.project_id, translation_id |-> translation_id,
     host |-> IF f.entry = "translate_queries_and_get_results"
              THEN GetHost(None, NotebookHostAfter(f.host, _notebook_host))
              ELSE f.host]

\* _start_translation, the globals of lines 199-202 or 336-341, and the
\* return of translate_queries or the entry into the poll loop; the
\* service numbers the jobs of the session
StartTranslation(o) ==
    LET translation_id == 10 + ncalls
        started == [frame EXCEPT !.translation_id = translation_id]
    IN
    /\ frame.step = "start"
    /\ sent' = Append(sent, Answered(Request("jobs", o, frame), translation_id))
    /\ HelperCalled
    /\ _last_project_id' = LastIdAfter(o, frame.project_id, _last_project_id)
    /\ _last_translation_id' = LastIdAfter(o, translation_id, _last_translation_id)
    /\ _last_source_type' = LastTypeAfter(o, frame.entry, frame.source_type,
                                          _last_source_type)
    /\ _last_target_type' = LastTypeAfter(o, frame.entry, frame.target_type,
                                          _last_target_type)
    /\ IF RequestFails(o)
       THEN /\ frame' = Fail(frame, o, << >>)
            /\ UNCHANGED jobs
            /\ UNCHANGED pollVars
       ELSE /\ jobs' = Append(jobs, [project_id |-> frame.project_id,
                                     translation_id |-> translation_id,
                                     entry |-> frame.entry,
                                     source_type |-> frame.source_type,
                                     target_type |-> frame.target_type])
            /\ IF frame.entry = "translate_queries"
               THEN /\ frame' = [started EXCEPT !.step = "returned"]
                    /\ UNCHANGED pollVars
               ELSE /\ frame' = [started EXCEPT
                                   !.step = "wait",
                                   !.wait = WaitArguments(frame, translation_id)]
                    /\ WaitBegins(frame.max_errors)
    /\ UNCHANGED renderVars

\* what the status requests of a call do
WaitOutcomes(n) ==
    {[ok |-> TRUE, status |-> s, exc |-> NoExc] : s \in {"running", "done"}}
    \cup {[ok |-> FALSE, status |-> None, exc |-> Raised(t, n)] :
             t \in {"ConnectionError", "HTTPError"}}

\* an iteration of the poll loop of the call with a status request
WaitCheck ==
    /\ frame.step = "wait"
    /\ Len(history) < MaxWaitRequests
    /\ \E o \in WaitOutcomes(Len(history) + 1) : StatusCheck(o)

\* the report of lines 347 and 429
Rendered(f, tr, source_type, target_type) ==
    LET html == TranslationResultsHtml(tr, source_type, target_type)
    IN IF html.kind = "raised" THEN Fail(f, html.exc, << >>)
       ELSE [f EXCEPT !.step = "returned"]

\* _wait_for_translation_results has ended: its exception leaves the call,
\* or its result is returned (line 379) or rendered and displayed (lines
\* 347-351)
WaitEnds(models) ==
    /\ frame.step = "wait"
    /\ pc \in {"returned", "raised"}
    /\ IF pc = "raised"
       THEN /\ frame' = Fail(frame, exc.type, << >>)
            /\ UNCHANGED renderVars
       ELSE IF frame.entry = "translate_queries_and_get_results"
       THEN /\ frame' = [frame EXCEPT !.step = "returned"]
            /\ UNCHANGED renderVars
       ELSE /\ translation_results' =
                  [translated_models |-> models,
                   polling_errors |-> ErrorTexts(result.polling_errors)]
            /\ report' = TranslationResultsHtml(translation_results',
                                                frame.source_type, frame.target_type)
            /\ rpc' = "done"
            /\ frame' = Rendered(frame, translation_results', frame.source_type,
                                 frame.target_type)
            /\ UNCHANGED model_arg
    /\ UNCHANGED <<globalVars, sent, ncalls, jobs>>
    /\ UNCHANGED pollVars

\* view_last_translation fetches the remembered job once and renders the
\* body (lines 420-436)
FetchLast(o, models) ==
    LET f == [frame EXCEPT !.project_id = _last_project_id,
                           !.translation_id = _last_translation_id]
        source_type == IF _last_source_type # << >> THEN _last_source_type
                       ELSE SnowflakeType
        target_type == IF _last_target_type # << >> THEN _last_target_type
                       ELSE DatabricksType
    IN
    /\ frame.step = "fetch"
    /\ sent' = Append(sent, Request("job", o, f))
    /\ IF RequestFails(o)
       THEN /\ frame' = Fail(f, o, << >>)
            /\ UNCHANGED renderVars
       ELSE /\ translation_results' =
                  [translated_models |-> models, polling_errors |-> << >>]
            /\ report' = TranslationResultsHtml(translation_results', source_type,
                                                target_type)
            /\ rpc' = "done"
            /\ frame' = Rendered(f, translation_results', source_type, target_type)
            /\ UNCHANGED model_arg
    /\ UNCHANGED <<globalVars, ncalls, jobs>>
    /\ UNCHANGED pollVars

EntryCall == \E c \in Calls : Begin(c)

OrganizationRequest ==
    \E o \in RequestOutcomes : ApiKeyCreated(o) \/ CreateOrganization(o)

DataSourcesRequest ==
    \E o \in RequestOutcomes, data_sources \in DataSourceLists :
        GetDataSources(o, data_sources)

ProjectRequest == \E o \in RequestOutcomes : CreateProject(o)

FilesRequest == \E o \in RequestOutcomes : UploadQueries(o)

JobsRequest == \E o \in RequestOutcomes : StartTranslation(o)

JobRequest == \E o \in RequestOutcomes, models \in ServedModels : FetchLast(o, models)

WaitReturn == \E models \in ServedModels : WaitEnds(models)

SessionNext ==
    \/ EntryCall
    \/ ApiKeyCached
    \/ OrganizationRequest
    \/ DataSourcesRequest
    \/ ProjectRequest
    \/ FilesRequest
    \/ JobsRequest
    \/ Spin
    \/ WaitCheck
    \/ WaitReturn
    \/ JobRequest

SpecSession == SessionInit /\ [][SessionNext]_vars

(***************************************************************************)
(* Properties of _wait_for_translation_results.                            *)
(*                                                                         *)
(* They are stated over history, the record of what every status request   *)
(* did.  A transient failure is a request that raised one of the errors of *)
(* the requests library; a network failure is one of the three that come   *)
(* from the connection or the HTTP status.                                 *)
(***************************************************************************)
NetworkErrorTypes == {"ConnectionError", "Timeout", "HTTPError"}

IsTransient(o) == ~o.ok /\ o.exc.type \in RequestExcTypes

IsSuccess(o) == o.ok

IsTerminalResponse(o) == o.ok /\ o.status \in {"done", "failed"}

Requested == Len(history) > 0

LastOutcome == history[Len(history)]

\* the transient failures of the session, in order of occurrence
Failures == SelectSeq(history, IsTransient)

\* the number of transient failures since the last request that did not fail
\* that way
RECURSIVE TrailingFailures(_)
TrailingFailures(h) ==
    IF h = << >> \/ ~IsTransient(h[Len(h)]) THEN 0
    ELSE 1 + TrailingFailures(SubSeq(h, 1, Len(h) - 1))

\* the loop gave up: the call ended on a transient failure
GaveUp == pc = "raised" /\ Requested /\ IsTransient(LastOutcome)

\* C1: when the consecutive transient failures reach max_errors, the call
\* raises the last transient error itself, the one of the failing request.
C1_RaisesLastTransientError == GaveUp => exc = LastOutcome.exc

\* C2: k < max_errors transient failures followed by a successful terminal
\* response: the call returns, and the returned '_polling_errors' has exactly
\* one entry per transient failure of the whole session, in order of
\* occurrence, whether or not the counter was reset in between.
C2_ReturnedLogIsComplete ==
    (Requested /\ IsTerminalResponse(LastOutcome) /\ Len(Failures) < max_errors)
        => /\ pc = "returned"
           /\ exc = NoExc
           /\ Len(result.polling_errors) = Len(Failures)
           /\ \A j \in 1..Len(Failures) :
                  result.polling_errors[j] = ErrorEntry(Failures[j].exc)

C2_Witness ==
    /\ pc = "returned"
    /\ max_errors = 3
    /\ Len(result.polling_errors) = 2
    /\ result.polling_errors[1] # result.polling_errors[2]
    /\ \E j \in 1..Len(history) :
           /\ IsSuccess(history[j])
           /\ \E a \in 1..(j - 1) : IsTransient(history[a])
           /\ \E b \in (j + 1)..Len(history) : IsTransient(history[b])

\* C3: the bound counts consecutive failures only.  The counter is the number
\* of transient failures since the last successful response (every success,
\* terminal or not, resets it), and the loop gives up exactly when
\* max_errors transient failures have occurred in a row.
C3_BoundCountsConsecutiveFailures ==
    /\ (Requested /\ (IsSuccess(LastOutcome) \/ IsTransient(LastOutcome)))
          => connection_error_count = TrailingFailures(history)
    /\ GaveUp <=> TrailingFailures(history) >= max_errors

\* the session has seen more than max_errors failures and is still polling
C3_Witness ==
    /\ pc = "polling"
    /\ Len(Failures) > max_errors
    /\ connection_error_count = 1

\* C4: an exception of a status check that is not a network error (a
\* malformed payload, a payload without status) leaves the call at once: it
\* is the exception the caller gets, and the counter and the log are as they
\* were, counting network failures only.
C4_NonNetworkExceptionPropagates ==
    (Requested /\ ~LastOutcome.ok /\ LastOutcome.exc.type \notin NetworkErrorTypes)
        => /\ pc = "raised"
           /\ exc = LastOutcome.exc
           /\ Len(error_log) =
                  Len(SelectSeq(history,
                        LAMBDA o : ~o.ok /\ o.exc.type \in NetworkErrorTypes))

\* C5: the call returns exactly when a successful response reports done or
\* failed; the result is built from that response; any other status keeps the
\* loop polling and is never returned.
C5_ReturnsIffTerminalStatus ==
    /\ pc = "returned" <=> (Requested /\ IsTerminalResponse(LastOutcome))
    /\ pc = "returned"
          => /\ result.status = LastOutcome.status
             /\ result.response = Len(history)
    /\ pc # "returned" => result = NoResult
    /\ (Requested /\ LastOutcome.ok /\ LastOutcome.status \notin {"done", "failed"})
          => pc = "polling"
    /\ \A j \in 1..(Len(history) - 1) : ~IsTerminalResponse(history[j])

C5_Witness ==
    /\ pc = "returned"
    /\ result.status = "failed"
    /\ result.response = 3
    /\ history[1].ok /\ history[1].status = "cancelled"
    /\ history[2].ok /\ history[2].status = "running"

\* what one step may do to the error log: keep it, or append one entry when
\* the step's status request failed transiently
C6_LogStep ==
    /\ Len(error_log') >= Len(error_log)
    /\ SubSeq(error_log', 1, Len(error_log)) = error_log
    /\ IF Len(history') = Len(history) + 1 /\ IsTransient(history'[Len(history')])
       THEN Len(error_log') = Len(error_log) + 1
       ELSE error_log' = error_log

\* C6: the error log only grows.  A step that sees a transient failure
\* appends one entry, any other step leaves the log as it is, no entry is
\* removed or rewritten, and the length of the log is at every point the
\* number of transient failures seen so far.
C6_LogOnlyGrows ==
    /\ [](Len(error_log) = Len(Failures))
    /\ [][C6_LogStep]_vars

\* the loop has given up after max_errors = 3 failures in a row, with an
\* earlier failure before a reset: the log holds all 4
C6_Witness ==
    /\ GaveUp
    /\ max_errors = 3
    /\ connection_error_count = 3
    /\ Len(error_log) = 4

(***************************************************************************)
(* Properties of _translation_results_html.                                *)
(***************************************************************************)
RenderDone == rpc = "done"

\* the pieces of the report that a fragment m of the template starts
PiecesOf(m) == SelectSeq(report.pieces, LAMBDA p : p.m = m)

\* the positions of the report where a fragment m of the template stands
PositionsOf(m) == {i \in 1..Len(report.pieces) : report.pieces[i].m = m}

\* the identifiers on the buttons of the sections, in the order of the report
SectionIdentifiers ==
    LET buttons == PiecesOf("button.collapsible")
    IN [i \in 1..Len(buttons) |-> SubSeq(buttons[i].text, 3, Len(buttons[i].text))]

Entities ==
    {<<"a", "m", "p", ";">>, <<"l", "t", ";">>, <<"g", "t", ";">>,
     <<"q", "u", "o", "t", ";">>, <<"#", "x", "2", "7", ";">>}

\* text holds no '<' and no '>', and each '&' of it starts an entity
IsEscaped(text) ==
    \A i \in 1..Len(text) :
        /\ text[i] \notin {"<", ">"}
        /\ text[i] = "&" =>
              \E e \in Entities :
                  /\ i + Len(e) <= Len(text)
                  /\ SubSeq(text, i + 1, i + Len(e)) = e

\* C7: for a job result with at least one model and some polling errors the
\* call returns a report whose Warnings section lists every polling error,
\* one item each, in order, escaped, before all the sections of the models.
C7_WarningsSectionFirst ==
    (RenderDone /\ translation_results.translated_models # << >>
        /\ translation_results.polling_errors # << >>)
        => LET errs == translation_results.polling_errors
               items == PiecesOf("div.polling-error-item")
           IN /\ report.kind = "returned"
              /\ Len(items) = Len(errs)
              /\ \A i \in 1..Len(errs) : items[i].text = Escape(errs[i])
              /\ \A i \in PositionsOf("div.polling-error-item"),
                    j \in PositionsOf("button.collapsible") : i < j

\* C8: every text the report takes from its input is escaped: no piece of the
\* report holds a '<', a '>' or an '&' that is not part of an entity.
C8_ReportTextIsEscaped ==
    (RenderDone /\ report.kind = "returned")
        => \A i \in 1..Len(report.pieces) : IsEscaped(report.pieces[i].text)

\* C9: for a job result without models the call returns exactly the notice
\* "No queries were translated.", whatever the polling errors are.
C9_EmptyResultIsNotice ==
    (RenderDone /\ translation_results.translated_models = << >>)
        => report = Returned(<<Piece("No queries were translated.", << >>)>>)

\* C10: the sections of a report are those of the models of the job result,
\* one each, in ascending order of the pair (value of the first run of digits
\* of the identifier, 0 without digits; identifier), the identifier being the
\* source filename or else the asset name.
OrderKey(identifier) ==
    LET run == FirstDigitRun(identifier)
    IN <<IF run = << >> THEN 0 ELSE IntOf(run), identifier>>

C10_SectionsInNaturalOrder ==
    (RenderDone /\ report.kind = "returned")
        => LET ids == SectionIdentifiers
               models == translation_results.translated_models
               Identifier(m) ==
                   IF m.source_filename # << >> THEN m.source_filename
                   ELSE m.asset_name
           IN /\ Len(ids) = Len(models)
              /\ \A m \in ModelPool :
                    Cardinality({i \in 1..Len(ids) : ids[i] = Identifier(m)})
                      = Cardinality({i \in 1..Len(models) :
                                       Identifier(models[i]) = Identifier(m)})
              /\ \A i, j \in 1..Len(ids) :
                    i < j => ~KeyLess(OrderKey(ids[j]), OrderKey(ids[i]))

\* query_21, query_10, query_2 come out as query_2, query_10, query_21
C10_Witness ==
    /\ RenderDone
    /\ Len(translation_results.translated_models) = 3
    /\ translation_results.translated_models[1].source_filename = Query(<<"2", "1">>)
    /\ translation_results.translated_models[2].source_filename = Query(<<"1", "0">>)
    /\ translation_results.translated_models[3].source_filename = Query(<<"2">>)
    /\ SectionIdentifiers = <<Query(<<"2">>), Query(<<"1", "0">>), Query(<<"2", "1">>)>>

(***************************************************************************)
(* The sort of lines 733-743 on identifiers with and without digits: job   *)
(* results without polling errors whose models differ in the identifier    *)
(* only, some carried by source_filename and some by asset_name.           *)
(***************************************************************************)
SortIdentifiers ==
    {<<"b">>, <<"n", "o", "t", "e", "s">>, <<"a", "0">>, <<"x", "0", "0">>,
     <<"b", "0", "_", "9">>, <<"a", "1">>, <<"0", "7">>}

SortModels ==
    {Model(id, <<"a">>, <<"a">>, << >>, VALID_TRANSLATION, NoSummary) :
        id \in SortIdentifiers}
    \cup {Model(<< >>, id, <<"a">>, << >>, VALID_TRANSLATION, NoSummary) :
            id \in {<<"b">>, <<"a", "0">>}}

SortResults ==
    {[translated_models |-> ms, polling_errors |-> << >>] :
        ms \in SeqsUpTo(SortModels, MaxModels)}

SortInit ==
    /\ PollIdle
    /\ SessionIdle
    /\ rpc = "called"
    /\ translation_results \in SortResults
    /\ model_arg = NoModel
    /\ report = NoReport

SpecSort == SortInit /\ [][RenderNext]_vars

\* C11: an identifier without digits sorts with the number 0: its section
\* stands before the section of every identifier whose first run of digits
\* has a value of 1 or more, and the sections of the identifiers with the
\* number 0 (no digits, or a first run of digits of value 0) stand in the
\* order of the identifier strings.
C11_UndigitedSortAsZero ==
    (RenderDone /\ report.kind = "returned")
        => LET ids == SectionIdentifiers
               Number(id) ==
                   IF FirstDigitRun(id) = << >> THEN 0 ELSE IntOf(FirstDigitRun(id))
           IN /\ Len(ids) = Len(translation_results.translated_models)
              /\ \A i, j \in 1..Len(ids) :
                    /\ (FirstDigitRun(ids[i]) = << >> /\ Number(ids[j]) >= 1) => i < j
                    /\ (Number(ids[i]) = 0 /\ Number(ids[j]) = 0 /\ i < j)
                          => ~StrLess(ids[j], ids[i])

\* a1, notes, a0 come out as a0, notes, a1: the identifier without digits
\* after one with a run of value 0 and before one with a run of value 1
C11_Witness ==
    /\ RenderDone
    /\ Len(translation_results.translated_models) = 3
    /\ translation_results.translated_models[1].source_filename = <<"a", "1">>
    /\ translation_results.translated_models[2].source_filename
         = <<"n", "o", "t", "e", "s">>
    /\ translation_results.translated_models[3].source_filename = <<"a", "0">>
    /\ SectionIdentifiers = <<<<"a", "0">>, <<"n", "o", "t", "e", "s">>, <<"a", "1">>>>

\* C12: a report has exactly one collapsible section for every model of the
\* job result, and the label of the section carries the success marker
\* exactly when the status of the model is valid_translation; with every
\* other status, known or not, it carries the warning marker.
C12_OneSectionPerModelWithMarker ==
    (RenderDone /\ report.kind = "returned")
        => LET buttons == PiecesOf("button.collapsible")
               models == translation_results.translated_models
               Identifier(m) ==
                   IF m.source_filename # << >> THEN m.source_filename
                   ELSE m.asset_name
               Label(m) ==
                   <<IF m.translation_status = <<"valid_translation">>
                     THEN "(check mark)" ELSE "(warning sign)", " ">>
                   \o Identifier(m)
           IN /\ Len(buttons) = Len(models)
              /\ Len(PiecesOf("div.content")) = Len(models)
              /\ \A m \in ModelPool :
                    Cardinality({i \in 1..Len(buttons) : buttons[i].text = Label(m)})
                      = Cardinality({i \in 1..Len(models) : Label(models[i]) = Label(m)})

\* a report with the success marker on one section and the warning marker on
\* two, one of them for a status string that is not in the enumeration
C12_Witness ==
    /\ RenderDone
    /\ report.kind = "returned"
    /\ \E i, j, k \in 1..Len(translation_results.translated_models) :
          /\ translation_results.translated_models[i].translation_status
               = <<"valid_translation">>
          /\ translation_results.translated_models[j].translation_status
               = <<"<", "b", ">">>
          /\ translation_results.translated_models[k].translation_status
               = <<"no_translation_attempts">>
    /\ Cardinality({i \in 1..Len(report.pieces) :
                      /\ report.pieces[i].m = "button.collapsible"
                      /\ report.pieces[i].text[1] = "(warning sign)"}) = 2
    /\ Cardinality({i \in 1..Len(report.pieces) :
                      /\ report.pieces[i].m = "button.collapsible"
                      /\ report.pieces[i].text[1] = "(check mark)"}) = 1

(***************************************************************************)
(* Properties of _render_translated_model_as_html.                         *)
(***************************************************************************)
\* the document has a "Warnings" block
HasWarnings == PositionsOf("details.warning-details summary Warnings") # {}

\* the document has a diff
HasDiff == PositionsOf("sql-container") # {}

\* the document has the placeholder
HasPlaceholder == PositionsOf("p No translation results available.") # {}

\* C13: the two blocks of the document of one model are decided
\* independently: it has a "Warnings" block exactly when the status is not
\* valid_translation, and a diff, of two columns, exactly when the target
\* text has a character that is not white space; with neither block, and
\* only then, it has the placeholder "No translation results available.".
C13_BlocksDecidedIndependently ==
    (RenderDone /\ model_arg # NoModel)
        => LET valid == model_arg.translation_status = <<"valid_translation">>
               target_text == model_arg.target_sql
               non_blank == \E i \in 1..Len(target_text) : target_text[i] \notin {" ", NL}
           IN /\ report.kind = "returned"
              /\ HasWarnings <=> ~valid
              /\ HasDiff <=> non_blank
              /\ HasDiff => Len(PiecesOf("sql-column h3")) = 2
              /\ ~HasDiff => PiecesOf("sql-column h3") = << >>
              /\ HasPlaceholder <=> (~HasWarnings /\ ~HasDiff)

\* a failed model with a target text: both blocks, no placeholder
C13_Witness ==
    /\ RenderDone
    /\ model_arg.translation_status = <<"invalid_translation">>
    /\ model_arg.target_sql = <<"a", NL, "x">>
    /\ HasWarnings
    /\ HasDiff
    /\ ~HasPlaceholder

\* C14: for a model whose status is not valid_translation and that has a
\* failure summary, the "Warnings" block shows the problem, the error
\* message, the solution and the reason, each once under its label, and
\* shows the location under its label exactly when the failure summary has
\* a non-empty location; without one the block has no location label and
\* no location field.
C14_FailureFieldsAndOptionalLocation ==
    (/\ RenderDone
     /\ model_arg # NoModel
     /\ model_arg.translation_status # <<"valid_translation">>
     /\ model_arg.failure_summary.present)
        => LET failure_detail == model_arg.failure_summary
               Shown(label, value) == PiecesOf(label) = <<[m |-> label, text |-> Escape(value)]>>
           IN /\ HasWarnings
              /\ Shown("failure-label Problem:", failure_detail.problem)
              /\ Shown("failure-label Error:", failure_detail.error_message)
              /\ Shown("failure-label Solution:", failure_detail.solution)
              /\ Shown("failure-label Reason:", failure_detail.reason)
              /\ IF failure_detail.location # << >>
                 THEN Shown("failure-label Location:", failure_detail.location)
                 ELSE PiecesOf("failure-label Location:") = << >>
              /\ PiecesOf("warning-message The translation could not be completed. Status:")
                   = << >>

\* a failed model whose failure summary has no location: four labels
C14_Witness ==
    /\ RenderDone
    /\ model_arg.translation_status = <<"no_translation_attempts">>
    /\ model_arg.failure_summary.present
    /\ model_arg.failure_summary.location = << >>
    /\ PiecesOf("failure-label Problem:") # << >>
    /\ PiecesOf("failure-label Reason:") # << >>
    /\ PiecesOf("failure-label Location:") = << >>

\* the lines of the left column (n = 1) and of the right column (n = 2) of
\* the diff: the pieces between the n-th column heading and the next
\* heading or the end of the diff
Column(n) ==
    LET pieces == report.pieces
        headings == {i \in 1..Len(pieces) : pieces[i].m = "sql-column h3"}
        start == CHOOSE i \in headings :
                    Cardinality({k \in headings : k < i}) = n - 1
        stops == {i \in (start + 1)..Len(pieces) :
                    pieces[i].m \in {"sql-column h3", "/sql-container"}}
        stop == CHOOSE i \in stops : \A k \in stops : i <= k
    IN SubSeq(pieces, start + 1, stop - 1)

\* C15: for every source text and every target text that is not blank, the
\* left column of the diff lists exactly the lines of the source text, in
\* their order, each tagged unchanged or removed, and the right column
\* exactly the lines of the target text, in their order, each tagged
\* unchanged or added; the unchanged lines are the same on both sides;
\* for "a\nb\nc" against "a\nx\nc" the left column is a, b (removed), c and
\* the right column a, x (added), c.
C15_DiffColumnsListTheLines ==
    (/\ RenderDone
     /\ model_arg # NoModel
     /\ \E i \in 1..Len(model_arg.target_sql) : model_arg.target_sql[i] \notin {" ", NL})
        => LET left == Column(1)
               right == Column(2)
               source_lines == SplitLines(model_arg.source_sql)
               target_lines == SplitLines(model_arg.target_sql)
               Unchanged(col) == SelectSeq(col, LAMBDA p : p.m = "line unchanged")
           IN /\ Len(left) = Len(source_lines)
              /\ \A i \in 1..Len(left) :
                    /\ left[i].text = Escape(source_lines[i])
                    /\ left[i].m \in {"line unchanged", "line removed"}
              /\ Len(right) = Len(target_lines)
              /\ \A i \in 1..Len(right) :
                    /\ right[i].text = Escape(target_lines[i])
                    /\ right[i].m \in {"line unchanged", "line added"}
              /\ Unchanged(left) = Unchanged(right)
              /\ (/\ model_arg.source_sql = <<"a", NL, "b", NL, "c">>
                  /\ model_arg.target_sql = <<"a", NL, "x", NL, "c">>)
                    => /\ left = <<[m |-> "line unchanged", text |-> <<"a">>],
                                   [m |-> "line removed", text |-> <<"b">>],
                                   [m |-> "line unchanged", text |-> <<"c">>]>>
                       /\ right = <<[m |-> "line unchanged", text |-> <<"a">>],
                                    [m |-> "line added", text |-> <<"x">>],
                                    [m |-> "line unchanged", text |-> <<"c">>]>>

\* "a\nb\nc" against "a\nx\nc"
C15_Witness ==
    /\ RenderDone
    /\ model_arg.source_sql = <<"a", NL, "b", NL, "c">>
    /\ model_arg.target_sql = <<"a", NL, "x", NL, "c">>
    /\ HasDiff
    /\ Len(PiecesOf("line removed")) = 1
    /\ Len(PiecesOf("line added")) = 1
    /\ Len(PiecesOf("line unchanged")) = 4

(***************************************************************************)
(* Timing of the status requests of _wait_for_translation_results.         *)
(***************************************************************************)
\* C16: two successive status requests start at least poll_interval apart
\* on the clock values the loop samples, also when the earlier of the two
\* failed transiently, and the first status request of a session is issued
\* on the first clock value sampled, without waiting.
C16_RequestsSpacedByPollInterval ==
    /\ \A i \in 1..Len(check_times) :
          IF i = 1 THEN check_times[i] = EpochStart
          ELSE check_times[i] - check_times[i - 1] >= poll_interval
    /\ Len(check_times) = Len(history)
    /\ (pc = "polling" /\ history = << >>) => clock = EpochStart

\* a request that follows a transient failure, two ticks after it with a
\* poll interval of two ticks
C16_Witness ==
    /\ poll_interval = 2
    /\ Len(history) >= 2
    /\ ~history[1].ok
    /\ history[1].exc.type = "Timeout"
    /\ check_times[1] = EpochStart
    /\ check_times[2] = EpochStart + 2

(***************************************************************************)
(* Termination of _wait_for_translation_results.                           *)
(***************************************************************************)
\* every answer so far was a success with a status that is not terminal
OnlyNonTerminalAnswers ==
    \A i \in 1..Len(history) :
        history[i].ok /\ history[i].status \notin {"done", "failed"}

\* the call ended for one of its three reasons
EndedForAReason ==
    /\ Requested
    /\ pc \in {"returned", "raised"}
    /\ pc = "returned" <=> IsTerminalResponse(LastOutcome)
    /\ pc = "raised" =>
          \/ IsTransient(LastOutcome) /\ TrailingFailures(history) = max_errors
          \/ ~LastOutcome.ok /\ ~IsTransient(LastOutcome)

\* C20: the wait has no bound of its own: the call ends only on a terminal
\* status, on max_errors consecutive transient failures or on an exception
\* that is not caught.  While every status request is answered with a
\* status that is not terminal the call does not return, however many
\* requests that is; once the job has ended, so that every later request
\* is answered with a terminal status or fails, the call ends.  (The
\* requests of a session are capped at MaxRequests, so the last part is
\* stated for a job that ends with max_errors requests to spare.)
C20_EndsOnlyOnTerminalBoundOrException ==
    /\ [](pc # "polling" => EndedForAReason)
    /\ [](OnlyNonTerminalAnswers => pc = "polling")
    /\ ((job_status \in {"done", "failed"} /\ Len(history) + max_errors <= MaxRequests)
          ~> pc # "polling")

\* the call still polls after MaxRequests answers, all of them "running", and
\* after MaxRequests poll intervals
C20_Witness ==
    /\ pc = "polling"
    /\ Len(history) = MaxRequests
    /\ OnlyNonTerminalAnswers
    /\ clock >= EpochStart + MaxRequests * poll_interval

(***************************************************************************)
(* Properties of the entry points.                                         *)
(***************************************************************************)
\* the operations of the requests the call has issued so far
SentOps == {sent[i].op : i \in 1..Len(sent)}

\* the data sources listed to the call have none of the type
Lacks(type) == \A i \in 1..Len(frame.data_sources) : frame.data_sources[i].type # type

\* the remembered ids are those from before the call
LastIdsUntouched ==
    /\ _last_project_id = frame.before.last_project_id
    /\ _last_translation_id = frame.before.last_translation_id

C18_MissingDataSourceErrorNamesResource ==
    (/\ frame.entry \in {"translate_queries", "translate_queries_and_get_results"}
     /\ frame.listed
     /\ \/ Lacks(<<"d", "a", "t", "a", "b", "r", "i", "c", "k", "s">>)
        \/ \A i \in 1..Len(frame.data_sources) :
              frame.data_sources[i].type = <<"d", "a", "t", "a", "b", "r", "i", "c", "k", "s">>)
        => /\ frame.step = "raised"
           /\ SentOps \cap {"projects", "files", "jobs"} = {}
           /\ frame.error.names # << >>

\* C19: outside the poll loop a connection error or an HTTP error status is
\* fatal: when the request of the organization creation, of the listing of
\* the data sources, of the project creation, of the upload, of the job
\* start or of the single fetch of view_last_translation fails that way,
\* the call has raised that error, the request was issued only once and no
\* request follows it.  Inside the poll loop the same two kinds of error
\* are absorbed: after such a failure the loop goes on polling until
\* max_errors of them have come in a row, and only then does the wait end
\* with an exception.
C19_ErrorsFatalOutsideLoopOnly ==
    /\ \A i \in 1..Len(sent) :
          sent[i].outcome \in {"ConnectionError", "HTTPError"}
            => /\ i = Len(sent)
               /\ frame.step = "raised"
               /\ frame.error.type = sent[i].outcome
               /\ Cardinality({j \in 1..Len(sent) : sent[j].op = sent[i].op}) = 1
               /\ history = << >>
    /\ (frame.entry # None /\ Requested
        /\ ~LastOutcome.ok
        /\ LastOutcome.exc.type \in {"ConnectionError", "HTTPError"})
          => IF TrailingFailures(history) < max_errors
             THEN pc = "polling" /\ frame.step = "wait"
             ELSE pc = "raised" /\ TrailingFailures(history) = max_errors

\* the upload of a call is refused with an HTTP error status: the call has
\* raised it after the listing, the project creation and the one upload,
\* and no job was started
C19_Witness ==
    /\ frame.step = "raised"
    /\ frame.error.type = "HTTPError"
    /\ Len(sent) >= 3
    /\ sent[Len(sent)].op = "files"
    /\ sent[Len(sent)].outcome = "HTTPError"
    /\ "jobs" \notin SentOps
    /\ history = << >>

TransientFailureStep ==
    /\ Len(history') = Len(history) + 1
    /\ IsTransient(history'[Len(history')])
    /\ TrailingFailures(history') < max_errors

\* C22: transient errors are shown as they come and the loop goes on: a
\* transient failure that does not reach the bound leaves the call polling
\* with a warnings display that lists every error logged so far, the one of
\* this failure last; the display is made on the first failure and the same
\* display is updated on the later ones; so whenever a status request is due
\* the display shows the whole error log, and there is none before the
\* first failure.
C22_WarningsShownIncrementally ==
    /\ [][TransientFailureStep
            => /\ pc' = "polling"
               /\ Len(error_log') = Len(error_log) + 1
               /\ warnings_handle'.exists
               /\ warnings_handle'.items = error_log'
               /\ warnings_handle'.created = 1]_vars
    /\ [](pc = "polling"
            => IF error_log = << >> THEN warnings_handle = NoHandle
               ELSE /\ warnings_handle.exists
                    /\ warnings_handle.items = error_log
                    /\ warnings_handle.created = 1)

\* two transient failures with a success between them: the one display
\* lists both errors and the loop is polling
C22_Witness ==
    /\ pc = "polling"
    /\ Len(history) = 3
    /\ IsTransient(history[1])
    /\ history[2].ok
    /\ IsTransient(history[3])
    /\ Len(error_log) = 2
    /\ warnings_handle.items = error_log
    /\ warnings_handle.created = 1

(***************************************************************************)
(* Claims about the session: what a call remembers for the next one.       *)
(***************************************************************************)
\* the job the service started last in this session
LastJob == jobs[Len(jobs)]

\* the requests of the call for a remembered job
JobFetches == SelectSeq(sent, LAMBDA r : r.op = "job")

\* the module globals are what they were when the call began
GlobalsUntouched ==
    /\ _notebook_host = frame.before.notebook_host
    /\ _current_api_key = frame.before.current_api_key
    /\ _identity = frame.before.identity
    /\ _last_project_id = frame.before.last_project_id
    /\ _last_translation_id = frame.before.last_translation_id
    /\ _last_source_type = frame.before.last_source_type
    /\ _last_target_type = frame.before.last_target_type

\* C21: view_last_translation fetches the job whose project id and
\* translation id are those of the most recent call that started a job (the
\* remembered pair is always the pair of one job); when no job was started
\* in the session it returns at once: no request, nothing rendered, no
\* global changed.
C21_ViewLastFetchesMostRecentJob ==
    /\ IF jobs = << >>
       THEN _last_project_id = NoneId /\ _last_translation_id = NoneId
       ELSE /\ _last_project_id = LastJob.project_id
            /\ _last_translation_id = LastJob.translation_id
    /\ frame.entry = "view_last_translation" =>
          /\ Len(JobFetches) <= 1
          /\ \A i \in 1..Len(JobFetches) :
                /\ jobs # << >>
                /\ JobFetches[i].project_id = LastJob.project_id
                /\ JobFetches[i].translation_id = LastJob.translation_id
          /\ history = << >>
          /\ jobs = << >> =>
                /\ frame.step = "returned"
                /\ sent = << >>
                /\ rpc = "idle"
                /\ report = NoReport
                /\ GlobalsUntouched

C21_Witness ==
    /\ frame.entry = "view_last_translation"
    /\ Len(jobs) = 2
    /\ jobs[1].project_id # jobs[2].project_id
    /\ Len(JobFetches) = 1
    /\ JobFetches[1].outcome = "ok"
    /\ JobFetches[1].project_id = 2
    /\ JobFetches[1].translation_id = 12
    /\ frame.step = "returned"
    /\ rpc = "done"

TranslateEntries ==
    {"translate_queries", "translate_queries_and_render_results",
     "translate_queries_and_get_results"}

\* the requests of the call of one kind
RequestsOf(op) == SelectSeq(sent, LAMBDA r : r.op = op)

\* the service has started the job of the call
JobStarted ==
    /\ RequestsOf("jobs") # << >>
    /\ RequestsOf("jobs")[1].outcome = "ok"

\* the remembered ids are those the service gave to the call
LastIdsOfThisCall ==
    /\ RequestsOf("projects") # << >>
    /\ _last_project_id = RequestsOf("projects")[1].returned
    /\ _last_translation_id = RequestsOf("jobs")[1].returned
    /\ _last_project_id # NoneId
    /\ _last_translation_id # NoneId

\* C24: a translate call writes the remembered last project id and last
\* translation id only once its job-start request has succeeded: while the
\* listing, the project creation, the upload or the job start has not
\* succeeded, or has failed, both keep the values from before the call; and
\* they are the ids of the call's job before the first status request is
\* issued, so that they still are when translate_queries_and_render_results
\* ends with an exception of the poll loop.
C24_LastIdsWrittenAtJobStart ==
    /\ [](frame.entry \in TranslateEntries =>
            IF JobStarted THEN LastIdsOfThisCall ELSE LastIdsUntouched)
    /\ [][(frame.entry \in TranslateEntries /\ Len(history') > Len(history))
            => (JobStarted /\ LastIdsOfThisCall)]_vars
    /\ []((/\ frame.entry = "translate_queries_and_render_results"
           /\ frame.step = "raised"
           /\ pc = "raised")
            => (/\ LastIdsOfThisCall
                /\ _last_project_id = frame.wait.project_id
                /\ _last_translation_id = frame.wait.translation_id))

C24_Witness ==
    /\ frame.entry = "translate_queries_and_render_results"
    /\ frame.step = "raised"
    /\ pc = "raised"
    /\ Len(history) = 2
    /\ frame.before.last_translation_id = 11
    /\ _last_project_id = 2
    /\ _last_translation_id = 12
    /\ frame.wait.translation_id = 12

\* the jobs of the session that translate_queries_and_render_results started
RenderJobs ==
    SelectSeq(jobs, LAMBDA j : j.entry = "translate_queries_and_render_results")

LastRenderJob == RenderJobs[Len(RenderJobs)]

\* the headings of the two SQL columns of the report, as displayed
ColumnHeadings ==
    [i \in 1..Len(PiecesOf("sql-column h3")) |-> PiecesOf("sql-column h3")[i].text]

HeadingOf(type) == Title(type) \o <<" ", "SQL">>

\* C27: translate_queries (alone or under translate_queries_and_get_results)
\* writes the remembered ids and leaves the remembered source and target
\* types as they were; translate_queries_and_render_results writes all
\* four.  So the remembered types are always those of the last job that
\* translate_queries_and_render_results started, and view_last_translation
\* heads the columns of its report with them (with the types of the job it
\* fetches only if that job is that one), or with snowflake and databricks
\* when there has been no such job.
C27_RememberedTypesAreOfLastRenderCall ==
    /\ IF RenderJobs = << >>
       THEN _last_source_type = << >> /\ _last_target_type = << >>
       ELSE /\ _last_source_type = LastRenderJob.source_type
            /\ _last_target_type = LastRenderJob.target_type
    /\ frame.entry \in {"translate_queries", "translate_queries_and_get_results"} =>
          /\ _last_source_type = frame.before.last_source_type
          /\ _last_target_type = frame.before.last_target_type
          /\ JobStarted => LastIdsOfThisCall
    /\ (frame.entry = "translate_queries_and_render_results" /\ JobStarted) =>
          /\ _last_source_type = frame.source_type
          /\ _last_target_type = frame.target_type
          /\ LastIdsOfThisCall
    /\ (/\ frame.entry = "view_last_translation"
        /\ rpc = "done"
        /\ ColumnHeadings # << >>) =>
          ColumnHeadings =
             IF RenderJobs = << >>
             THEN <<HeadingOf(<<"s", "n", "o", "w", "f", "l", "a", "k", "e">>),
                    HeadingOf(<<"d", "a", "t", "a", "b", "r", "i", "c", "k", "s">>)>>
             ELSE <<HeadingOf(LastRenderJob.source_type),
                    HeadingOf(LastRenderJob.target_type)>>

C27_Witness ==
    /\ frame.entry = "view_last_translation"
    /\ Len(jobs) = 2
    /\ jobs[1].entry = "translate_queries_and_render_results"
    /\ jobs[1].source_type = <<"r", "e", "d", "s", "h", "i", "f", "t">>
    /\ jobs[2].entry = "translate_queries"
    /\ Len(JobFetches) = 1
    /\ JobFetches[1].translation_id = jobs[2].translation_id
    /\ rpc = "done"
    /\ Len(ColumnHeadings) = 2
    /\ ColumnHeadings[1] = <<"R", "e", "d", "s", "h", "i", "f", "t", " ", "SQL">>

\* the requests of a translate call in the order of the code
TranslateOrder == <<"data_sources", "projects", "files", "jobs">>

\* the requests of the call other than the creation of an organization
TranslateRequests == SelectSeq(sent, LAMBDA r : r.op # "org")

\* C23: a translate call issues its requests in one order: list the data
\* sources, create the project, upload the queries, start the job, and then
\* (except in translate_queries) ask for the status of the job.  Each of the
\* four is issued once, and only when the one before it has succeeded; the
\* upload and the job start address the project id that the project
\* creation returned, and the status requests address that project and the
\* translation id that the job start returned.
C23_RequestsInFixedOrder ==
    /\ [](frame.entry \in TranslateEntries =>
            /\ Len(TranslateRequests) <= Len(TranslateOrder)
            /\ \A i \in 1..Len(TranslateRequests) :
                  /\ TranslateRequests[i].op = TranslateOrder[i]
                  /\ i < Len(TranslateRequests) => TranslateRequests[i].outcome = "ok"
                  /\ i >= 3 =>
                        /\ TranslateRequests[i].project_id = TranslateRequests[2].returned
                        /\ TranslateRequests[i].project_id # NoneId
            /\ \A i \in 1..Len(sent) : sent[i].op = "org" => i = 1
            /\ frame.entry = "translate_queries" => history = << >>
            /\ history # << >> =>
                  /\ Len(TranslateRequests) = 4
                  /\ TranslateRequests[4].outcome = "ok"
                  /\ frame.wait.project_id = TranslateRequests[2].returned
                  /\ frame.wait.translation_id = TranslateRequests[4].returned
                  /\ frame.wait.translation_id # NoneId)
    /\ [][(frame.entry \in TranslateEntries /\ frame'.entry = frame.entry
           /\ ncalls' = ncalls)
            => \/ sent' = sent
               \/ (history' = history /\ Len(sent') = Len(sent) + 1
                   /\ SubSeq(sent', 1, Len(sent)) = sent)]_vars

C23_Witness ==
    /\ frame.entry = "translate_queries_and_get_results"
    /\ Len(sent) = 5
    /\ sent[1].op = "org"
    /\ sent[5].op = "jobs"
    /\ sent[4].project_id = 2
    /\ sent[5].returned = 12
    /\ Len(history) = 2
    /\ frame.wait.translation_id = 12
    /\ frame.step = "returned"

\* what _get_host owes to the first resolution of the call: the host
\* argument, else the host recorded when the call began, else the default
ResolvedAtEntry ==
    IF frame.host_arg # None THEN frame.host_arg
    ELSE IF frame.before.notebook_host # None THEN frame.before.notebook_host
    ELSE "https://app.datafold.com"

\* C26: _get_host with a host returns it and records it as the host of the
\* session; without a host it returns the recorded host, or the default
\* host when none is recorded, and leaves the record as it is.  So all the
\* requests of one call, the status requests included, go to one host.
C26_OneHostPerCall ==
    /\ [](frame.host # None =>
            /\ frame.host = ResolvedAtEntry
            /\ frame.host_arg # None => _notebook_host = frame.host_arg)
    /\ []((frame.entry = "create_organization" /\ frame.host_arg = None)
            => _notebook_host = frame.before.notebook_host)
    /\ [][_notebook_host' # _notebook_host
            => (_notebook_host' = frame'.host /\ frame'.host # None)]_vars
    /\ [](/\ \A i \in 1..Len(sent) : sent[i].host = frame.host
          /\ history # << >> => frame.wait.host = frame.host)

C26_Witness ==
    /\ frame.entry = "translate_queries_and_get_results"
    /\ frame.host_arg = None
    /\ frame.before.notebook_host = "h1"
    /\ frame.host = "h1"
    /\ Len(sent) = 4
    /\ \A i \in 1..4 : sent[i].host = "h1"
    /\ Len(history) = 2
    /\ frame.wait.host = "h1"
    /\ _notebook_host = "h1"

\* the entry points that take their key from _get_current_api_key
KeyedEntries ==
    {"translate_queries_and_render_results", "translate_queries_and_get_results",
     "view_last_translation"}

\* the organization the call asked the service to create, and got
OrganizationCreated ==
    /\ RequestsOf("org") # << >>
    /\ RequestsOf("org")[1].outcome = "ok"

\* C25: the API key of the session is sticky.  Once it is set, a call that
\* takes its key from _get_current_api_key uses that key in all its
\* requests and creates no organization, whatever organization token and
\* host it is given, and leaves the key as it is; a key that is not set is
\* set by the organization such a call creates; create_organization sets
\* the key to the one the service returned on every call that succeeds, and
\* nothing else changes the key.
C25_ApiKeyIsSticky ==
    /\ []((frame.entry \in KeyedEntries /\ frame.before.current_api_key # None) =>
            /\ RequestsOf("org") = << >>
            /\ _current_api_key = frame.before.current_api_key
            /\ frame.api_key \in {None, frame.before.current_api_key}
            /\ \A i \in 1..Len(sent) :
                  sent[i].api_key = frame.before.current_api_key)
    /\ []((frame.entry \in KeyedEntries /\ frame.before.current_api_key = None) =>
            /\ Len(RequestsOf("org")) <= 1
            /\ _current_api_key = IF OrganizationCreated
                                  THEN RequestsOf("org")[1].returned_key
                                  ELSE None
            /\ \A i \in 1..Len(sent) :
                  sent[i].op # "org" =>
                     (OrganizationCreated /\ sent[i].api_key = _current_api_key))
    /\ [](frame.entry = "create_organization" =>
            /\ Len(sent) <= 1
            /\ _current_api_key = IF OrganizationCreated
                                  THEN RequestsOf("org")[1].returned_key
                                  ELSE frame.before.current_api_key
            /\ OrganizationCreated =>
                  _current_api_key \notin {None, frame.before.current_api_key})
    /\ [](frame.entry = "translate_queries" =>
            _current_api_key = frame.before.current_api_key)
    /\ [][_current_api_key' # _current_api_key =>
            /\ Len(RequestsOf("org")') = Len(RequestsOf("org")) + 1
            /\ OrganizationCreated'
            /\ _current_api_key = None \/ frame.entry = "create_organization"]_vars

C25_Witness ==
    /\ ncalls = 3
    /\ frame.entry = "translate_queries_and_get_results"
    /\ frame.org_token = "t1"
    /\ frame.host = "h2"
    /\ frame.before.current_api_key = "k_org2"
    /\ _current_api_key = "k_org2"
    /\ Len(sent) = 4
    /\ \A i \in 1..4 : sent[i].api_key = "k_org2" /\ sent[i].outcome = "ok"
    /\ frame.step = "returned"

(***************************************************************************)
(* Part 4.  From the upload to the report: a call of                       *)
(* translate_queries_and_render_results with 1..MaxQueries queries that    *)
(* has created its organization and its project, then uploads, starts the  *)
(* job and polls; the job the service returns has one model for every      *)
(* uploaded file, under the filename of the file, in an order of the       *)
(* service's choosing.                                                     *)
(***************************************************************************)
\* the call after lines 285-326 have succeeded
UploadingFrame(queries) ==
    [NoFrame EXCEPT
        !.entry = "translate_queries_and_render_results",
        !.step = "upload", !.host = DEFAULT_HOST, !.api_key = OrgKey(1),
        !.source_type = SnowflakeType, !.target_type = DatabricksType,
        !.max_errors = 1, !.identity = "context", !.listed = TRUE,
        !.data_sources = <<DataSource(SnowflakeType, 1), DataSource(DatabricksType, 2)>>,
        !.source_id = 1, !.target_id = 2, !.project_id = 1,
        !.org_token = DEFAULT_ORG_TOKEN, !.queries = queries]

\* the requests of lines 285-326, all answered
UploadingSent(f) ==
    LET g == [f EXCEPT !.api_key = None, !.project_id = NoneId]
    IN <<AnsweredKey(Request("org", "ok", g), f.api_key),
         Request("data_sources", "ok", [f EXCEPT !.project_id = NoneId]),
         Answered(Request("projects", "ok", [f EXCEPT !.project_id = NoneId]),
                  f.project_id)>>

UploadInit ==
    /\ PollIdle
    /\ RenderIdle
    /\ _notebook_host = DEFAULT_HOST
    /\ _current_api_key = OrgKey(1)
    /\ _identity = "context"
    /\ _last_project_id = NoneId
    /\ _last_translation_id = NoneId
    /\ _last_source_type = << >>
    /\ _last_target_type = << >>
    /\ ncalls = 1
    /\ jobs = << >>
    /\ \E queries \in 1..MaxQueries :
          /\ frame = UploadingFrame(queries)
          /\ sent = UploadingSent(frame)

\* the orders in which the service returns the models of n files: every
\* order of up to MaxPermuted files; of more files, the order of the
\* upload, its reverse, its rotations and its exchanges of two neighbours
AllOrders(n) ==
    {p \in [1..n -> 1..n] : \A i, j \in 1..n : i # j => p[i] # p[j]}

Rotation(n, k) == [i \in 1..n |-> ((i + k - 1) % n) + 1]

Reversal(n) == [i \in 1..n |-> n + 1 - i]

Exchange(n, k) ==
    [i \in 1..n |-> IF i = k THEN k + 1 ELSE IF i = k + 1 THEN k ELSE i]

ReturnOrders(n) ==
    IF n <= MaxPermuted THEN AllOrders(n)
    ELSE {Rotation(n, k) : k \in 0..(n - 1)}
         \cup {Reversal(n)}
         \cup {Exchange(n, k) : k \in 1..(n - 1)}

\* one translated model for every uploaded file, under its filename
ModelsReturned(files, order) ==
    [i \in 1..Len(files) |->
        Model(files[order[i]], <<"a">>, <<"a">>, << >>, VALID_TRANSLATION, NoSummary)]

\* the filenames of the upload of the call
UploadedFiles ==
    IF RequestsOf("files") = << >> THEN << >> ELSE RequestsOf("files")[1].files

\* the job has ended and its models are rendered (lines 343-351)
UploadedReturn ==
    \E order \in ReturnOrders(Len(UploadedFiles)) :
        WaitEnds(ModelsReturned(UploadedFiles, order))

UploadNext ==
    \/ FilesRequest
    \/ JobsRequest
    \/ Spin
    \/ WaitCheck
    \/ UploadedReturn

SpecUpload == UploadInit /\ [][UploadNext]_vars

\* the characters of a filename between "query_" and ".sql", and its end
NameNumber(name) == SubSeq(name, 7, Len(name) - 4)

NameEnd(name) == SubSeq(name, Len(name) - 3, Len(name))

\* C29: the queries are uploaded as query_1.sql .. query_n.sql in the order
\* the caller gave them, and the report sorts its sections by that number:
\* when the job has one model for every uploaded file, under its filename,
\* the sections of the report are the uploaded files in the order of the
\* upload, the k-th section being that of the k-th query, whatever the
\* number of queries (ten and more included) and the order of the models
\* in the job.
C29_ReportInCallersOrder ==
    /\ \A k \in 1..Len(UploadedFiles) :
          /\ Len(UploadedFiles[k]) > 10
          /\ SubSeq(UploadedFiles[k], 1, 6) = <<"q", "u", "e", "r", "y", "_">>
          /\ NameEnd(UploadedFiles[k]) = <<".", "s", "q", "l">>
          /\ \A i \in 1..Len(NameNumber(UploadedFiles[k])) :
                NameNumber(UploadedFiles[k])[i] \in Digits
          /\ IntOf(NameNumber(UploadedFiles[k])) = k
          /\ UploadedFiles[k][7] # "0"
    /\ UploadedFiles # << >> => Len(UploadedFiles) = frame.queries
    /\ (RenderDone /\ report.kind = "returned") =>
          /\ Len(translation_results.translated_models) = frame.queries
          /\ SectionIdentifiers = UploadedFiles
          /\ \A k \in 1..Len(SectionIdentifiers) :
                IntOf(NameNumber(SectionIdentifiers[k])) = k

C29_Witness ==
    /\ RenderDone
    /\ report.kind = "returned"
    /\ frame.queries = 11
    /\ translation_results.translated_models[1].source_filename =
          <<"q", "u", "e", "r", "y", "_", "1", "1", ".", "s", "q", "l">>
    /\ translation_results.translated_models[10].source_filename =
          <<"q", "u", "e", "r", "y", "_", "2", ".", "s", "q", "l">>
    /\ Len(SectionIdentifiers) = 11
    /\ SectionIdentifiers[2] = <<"q", "u", "e", "r", "y", "_", "2", ".", "s", "q", "l">>
    /\ SectionIdentifiers[10] = <<"q", "u", "e", "r", "y", "_", "1", "0", ".", "s", "q", "l">>
    /\ SectionIdentifiers[11] = <<"q", "u", "e", "r", "y", "_", "1", "1", ".", "s", "q", "l">>

=============================================================================
